---------------------------- MODULE Spec2Model ----------------------------
(***************************************************************************)
(* Verification model of the domain runtime registry                       *)
(* (crates/pallet-domains/src/runtime_registry.rs) and of the domain block *)
(* builder (domains/client/block-builder/src/lib.rs).                      *)
(*                                                                         *)
(* Option<T> values are sequences of length 0 (None) or 1 (Some).          *)
(* Result<T, Error> values are records [res, value]: res is "Ok" or the    *)
(* name of the Error variant, value is the Option of the Ok payload.       *)
(***************************************************************************)
EXTENDS Integers, Sequences, FiniteSets, TLC

VARIABLES
    \* ---- pallet-domains storage and frame_system state
    RuntimeRegistry,           \* StorageMap RuntimeId -> RuntimeObject
    ScheduledRuntimeUpgrades,  \* StorageDoubleMap (BlockNumber, RuntimeId) -> ScheduledRuntimeUpgrade
    NextRuntimeId,             \* StorageValue RuntimeId
    DomainRuntimeUpgradeDelay, \* T::DomainRuntimeUpgradeDelay (fixed per chain)
    block_number,              \* frame_system current block number
    digest,                    \* frame_system digest logs of the current block (runtime ids)
    events,                    \* frame_system events of the current block (runtime ids)
    panicked,                  \* the expect() in do_upgrade_runtimes failed
    \* ---- block builder
    builder,                   \* the BlockBuilder value: its phase ("none", "ready", "consumed",
                               \* "discarded"),
                               \* the build profile and the inspections made on it
    extrinsics,                \* BlockBuilder.extrinsics: the transaction queue
    api,                       \* BlockBuilder.api: the runtime execution context
    backend,                   \* the state the backend holds at parent_hash (None once pruned)
    result,                    \* what the last BlockBuilder operation returned
    \* ---- callers of RuntimeObject::into_complete_raw_genesis
    complete_raw_genesis,      \* the RawGenesis values into_complete_raw_genesis returned, in
                               \* call order, each with the arguments of its call
    \* ---- pallet-runtime-configs storage
    EnableDomains,             \* StorageValue bool
    EnableDynamicCostOfStorage, \* StorageValue bool
    EnableBalanceTransfers,    \* StorageValue bool
    EnableNonRootCalls,        \* StorageValue bool
    ConfirmationDepthK,        \* StorageValue BlockNumber
    dispatch_result            \* the last pallet-runtime-configs call and its DispatchResult

registryVars == << RuntimeRegistry, ScheduledRuntimeUpgrades, NextRuntimeId,
                   DomainRuntimeUpgradeDelay, block_number, digest,
                   events, panicked >>

\* The storage of the pallet (what "the registry state" means in the claims).
registryStorage == << RuntimeRegistry, ScheduledRuntimeUpgrades, NextRuntimeId >>

builderVars == << builder, extrinsics, api, backend, result >>

\* The storage of pallet-runtime-configs.
configStorage == << EnableDomains, EnableDynamicCostOfStorage, EnableBalanceTransfers,
                    EnableNonRootCalls, ConfirmationDepthK >>

configVars == << configStorage, dispatch_result >>

vars == << registryVars, builderVars, complete_raw_genesis, configVars >>

---------------------------------------------------------------------------
\* Program constants

\* The largest value of the unsigned 32-bit types RuntimeId and
\* runtime_upgrades: checked_add(1) fails and saturating_add(1) stops there.
\* TLC's integers are 32-bit signed, so the model keeps 31 of the 32 bits; the
\* arithmetic below never forms a number above this value.
U32Max == 2147483647

\* The largest value of BlockNumberFor<T>: checked_add fails above it (same
\* narrowing as U32Max).
MaxBlockNumber == 2147483647

\* confirmation_depth_k of GenesisConfig::default()
DefaultConfirmationDepthK == 100

\* Bounds of the model

\* Largest spec_version a candidate code declares.
MaxSpecVersion == 3

\* Largest configured upgrade delay.
MaxDelay == 2

\* Number of blocks the chain driver advances.
MaxBlocks == 3

\* Number of successful register and scheduleUpgrade calls whose effect the
\* registry holds at once (objects, pending upgrades and applied upgrades).
MaxWork == 3

\* Number of runtimes the genesis configuration registers.
MaxGenesisRuntimes == 1

---------------------------------------------------------------------------
\* Values

None == << >>

Some(x) == << x >>

IsSome(o) == Len(o) = 1

SpecNames == { "test", "test1" }

SpecVersions == 1 .. MaxSpecVersion

RuntimeNames == { "evm" }

RuntimeTypes == { "Evm" }

\* sp_version::RuntimeVersion (the fields the registry reads)
RuntimeVersion(spec_name, spec_version) ==
    [ spec_name |-> spec_name, spec_version |-> spec_version ]

\* The versions the submitted codes declare: every version of spec "test" and
\* one version of another spec.
RuntimeVersions == { RuntimeVersion("test", v) : v \in SpecVersions }
                   \cup { RuntimeVersion("test1", 2) }

\* The versions a genesis configuration declares for its runtimes: they need
\* not be the versions the codes declare.
GenesisRuntimeVersions == { RuntimeVersion("test", 2), RuntimeVersion("test1", 2) }

\* Runtime code blobs: code carrying a readable version, and code from which
\* no version can be read.
Codes == [ readable : { TRUE }, version : RuntimeVersions ]
         \cup { [ readable |-> FALSE, version |-> RuntimeVersion("test", 1) ] }

\* sp_domains::storage::RawGenesis: the runtime code (if any) and the domain
\* identity injected at use time.
RawGenesis(code_opt) ==
    [ runtime_code |-> code_opt, domain_id |-> None, evm_chain_id |-> None ]

RawGeneses == { RawGenesis(Some(c)) : c \in Codes } \cup { RawGenesis(None) }

\* Encoded raw genesis storage (Vec<u8>): well-formed encodings and bytes that
\* do not decode.
Encode(raw_genesis) == [ well_formed |-> TRUE, payload |-> raw_genesis ]

MalformedBytes == [ well_formed |-> FALSE, payload |-> RawGenesis(None) ]

RawGenesisStorages == { Encode(g) : g \in RawGeneses } \cup { MalformedBytes }

\* The storages submitted for registration: a runtime starts at the first
\* version of spec "test" or as spec "test1"; the storages registration
\* rejects are all submitted.
RegisteredGenesisStorages ==
    { b \in RawGenesisStorages :
        ( b.well_formed /\ IsSome(b.payload.runtime_code)
          /\ b.payload.runtime_code[1].readable )
        => b.payload.runtime_code[1].version
              \in { RuntimeVersion("test", 1), RuntimeVersion("test1", 2) } }

\* Decode::decode(&mut raw_genesis_storage.as_slice())
Decode(bytes) == IF bytes.well_formed THEN Some(bytes.payload) ELSE None

\* RawGenesis::get_runtime_code
get_runtime_code(raw_genesis) == raw_genesis.runtime_code

\* T::Hashing::hash
Hashing_hash(code) == [ hash_of |-> code ]


---------------------------------------------------------------------------
\* runtime_registry.rs

\* runtime_version(code): the version embedded in the code, if readable.
runtime_version(code) ==
    IF code.readable
    THEN [ res |-> "Ok", value |-> Some(code.version) ]
    ELSE [ res |-> "FailedToExtractRuntimeVersion", value |-> None ]

\* can_upgrade_code without the spec_name check.
can_upgrade_code_NoNameCheck(current_version, update_code) ==
    LET new_version == runtime_version(update_code) IN
    IF new_version.res # "Ok" THEN new_version
    ELSE IF new_version.value[1].spec_version <= current_version.spec_version
         THEN [ res |-> "SpecVersionNeedsToIncrease", value |-> None ]
         ELSE new_version

\* can_upgrade_code accepting an equal spec_version.
can_upgrade_code_AllowEqual(current_version, update_code) ==
    LET new_version == runtime_version(update_code) IN
    IF new_version.res # "Ok" THEN new_version
    ELSE IF new_version.value[1].spec_name # current_version.spec_name
         THEN [ res |-> "InvalidSpecName", value |-> None ]
         ELSE IF new_version.value[1].spec_version < current_version.spec_version
              THEN [ res |-> "SpecVersionNeedsToIncrease", value |-> None ]
              ELSE new_version

can_upgrade_code(current_version, update_code) ==
    LET new_version == runtime_version(update_code) IN
    IF new_version.res # "Ok" THEN new_version
    ELSE IF new_version.value[1].spec_name # current_version.spec_name
         THEN [ res |-> "InvalidSpecName", value |-> None ]
         ELSE IF new_version.value[1].spec_version <= current_version.spec_version
              THEN [ res |-> "SpecVersionNeedsToIncrease", value |-> None ]
              ELSE new_version

\* StorageMap::insert / StorageDoubleMap::insert
Insert(map, key, value) ==
    [ k \in (DOMAIN map) \cup { key } |-> IF k = key THEN value ELSE map[k] ]

\* Removal of a set of keys from a storage map.
Remove(map, keys) == [ k \in (DOMAIN map) \ keys |-> map[k] ]

\* u32::checked_add(1)
checked_add_id(runtime_id) ==
    IF runtime_id >= U32Max THEN None ELSE Some(runtime_id + 1)

\* BlockNumber::saturating_add in place of checked_add.
saturating_add_block(number, delay) ==
    IF delay > MaxBlockNumber - number THEN Some(MaxBlockNumber) ELSE Some(number + delay)

\* BlockNumber::checked_add
checked_add_block(number, delay) ==
    IF delay > MaxBlockNumber - number THEN None ELSE Some(number + delay)

\* u32::saturating_add(1)
saturating_add(n) == IF n >= U32Max THEN U32Max ELSE n + 1

\* The outcome of a call: its result and the storage it leaves.
Outcome(res, value, registry, scheduled, next_id) ==
    [ res |-> res, value |-> value, registry |-> registry,
      scheduled |-> scheduled, next_id |-> next_id ]

\* An early error return: nothing was written.
Fail(err) ==
    Outcome(err, None, RuntimeRegistry, ScheduledRuntimeUpgrades, NextRuntimeId)

\* do_register_runtime that does not advance NextRuntimeId.
do_register_runtime_NoAdvance(runtime_name, runtime_type, raw_genesis_storage, at) ==
    LET decoded == Decode(raw_genesis_storage) IN
    IF ~IsSome(decoded) THEN Fail("FailedToDecodeRawGenesis")
    ELSE
    LET code == get_runtime_code(decoded[1]) IN
    IF ~IsSome(code) THEN Fail("RuntimeCodeNotFoundInRawGenesis")
    ELSE
    LET version == runtime_version(code[1]) IN
    IF version.res # "Ok" THEN Fail(version.res)
    ELSE
    LET inserted == Insert(RuntimeRegistry, NextRuntimeId,
                           [ runtime_name |-> runtime_name,
                             runtime_type |-> runtime_type,
                             runtime_upgrades |-> 0,
                             hash |-> Hashing_hash(code[1]),
                             raw_genesis |-> decoded[1],
                             version |-> version.value[1],
                             created_at |-> at,
                             updated_at |-> at ])
    IN  IF ~IsSome(checked_add_id(NextRuntimeId))
        THEN Outcome("MaxRuntimeId", None, inserted,
                     ScheduledRuntimeUpgrades, NextRuntimeId)
        ELSE Outcome("Ok", Some(NextRuntimeId), inserted,
                     ScheduledRuntimeUpgrades, NextRuntimeId)

\* do_register_runtime that stores the object under the advanced id.
do_register_runtime_StoresUnderNext(runtime_name, runtime_type, raw_genesis_storage, at) ==
    LET decoded == Decode(raw_genesis_storage) IN
    IF ~IsSome(decoded) THEN Fail("FailedToDecodeRawGenesis")
    ELSE
    LET code == get_runtime_code(decoded[1]) IN
    IF ~IsSome(code) THEN Fail("RuntimeCodeNotFoundInRawGenesis")
    ELSE
    LET version == runtime_version(code[1]) IN
    IF version.res # "Ok" THEN Fail(version.res)
    ELSE
    LET next_runtime_id == checked_add_id(NextRuntimeId) IN
    IF ~IsSome(next_runtime_id) THEN Fail("MaxRuntimeId")
    ELSE Outcome("Ok", Some(NextRuntimeId),
                 Insert(RuntimeRegistry, next_runtime_id[1],
                        [ runtime_name |-> runtime_name,
                          runtime_type |-> runtime_type,
                          runtime_upgrades |-> 0,
                          hash |-> Hashing_hash(code[1]),
                          raw_genesis |-> decoded[1],
                          version |-> version.value[1],
                          created_at |-> at,
                          updated_at |-> at ]),
                 ScheduledRuntimeUpgrades, next_runtime_id[1])

do_register_runtime(runtime_name, runtime_type, raw_genesis_storage, at) ==
    LET decoded == Decode(raw_genesis_storage) IN
    IF ~IsSome(decoded) THEN Fail("FailedToDecodeRawGenesis")
    ELSE
    LET raw_genesis == decoded[1]
        code == get_runtime_code(raw_genesis) IN
    IF ~IsSome(code) THEN Fail("RuntimeCodeNotFoundInRawGenesis")
    ELSE
    LET version == runtime_version(code[1]) IN
    IF version.res # "Ok" THEN Fail(version.res)
    ELSE
    LET runtime_hash == Hashing_hash(code[1])
        runtime_id == NextRuntimeId
        \* RuntimeRegistry::insert happens before the id is advanced
        inserted == Insert(RuntimeRegistry, runtime_id,
                           [ runtime_name |-> runtime_name,
                             runtime_type |-> runtime_type,
                             runtime_upgrades |-> 0,
                             hash |-> runtime_hash,
                             raw_genesis |-> raw_genesis,
                             version |-> version.value[1],
                             created_at |-> at,
                             updated_at |-> at ])
        next_runtime_id == checked_add_id(runtime_id)
    IN  IF ~IsSome(next_runtime_id)
        THEN Outcome("MaxRuntimeId", None, inserted,
                     ScheduledRuntimeUpgrades, NextRuntimeId)
        ELSE Outcome("Ok", Some(runtime_id), inserted,
                     ScheduledRuntimeUpgrades, next_runtime_id[1])

\* register_runtime_at_genesis: the version is an argument and is stored as
\* given; the code is not asked for its version.
register_runtime_at_genesis(runtime_name, runtime_type, runtime_version_, raw_genesis_storage, at) ==
    LET decoded == Decode(raw_genesis_storage) IN
    IF ~IsSome(decoded) THEN Fail("FailedToDecodeRawGenesis")
    ELSE
    LET raw_genesis == decoded[1]
        code == get_runtime_code(raw_genesis) IN
    IF ~IsSome(code) THEN Fail("RuntimeCodeNotFoundInRawGenesis")
    ELSE
    LET runtime_hash == Hashing_hash(code[1])
        runtime_id == NextRuntimeId
        inserted == Insert(RuntimeRegistry, runtime_id,
                           [ runtime_name |-> runtime_name,
                             runtime_type |-> runtime_type,
                             runtime_upgrades |-> 0,
                             hash |-> runtime_hash,
                             raw_genesis |-> raw_genesis,
                             version |-> runtime_version_,
                             created_at |-> at,
                             updated_at |-> at ])
        next_runtime_id == checked_add_id(runtime_id)
    IN  IF ~IsSome(next_runtime_id)
        THEN Outcome("MaxRuntimeId", None, inserted,
                     ScheduledRuntimeUpgrades, NextRuntimeId)
        ELSE Outcome("Ok", Some(runtime_id), inserted,
                     ScheduledRuntimeUpgrades, next_runtime_id[1])

\* do_schedule_runtime_upgrade that also writes the candidate into the object.
do_schedule_runtime_upgrade_Eager(runtime_id, raw_genesis_storage, current_block_number) ==
    IF runtime_id \notin DOMAIN RuntimeRegistry THEN Fail("MissingRuntimeObject")
    ELSE
    LET runtime_obj == RuntimeRegistry[runtime_id]
        decoded == Decode(raw_genesis_storage) IN
    IF ~IsSome(decoded) THEN Fail("FailedToDecodeRawGenesis")
    ELSE
    LET new_code == get_runtime_code(decoded[1]) IN
    IF ~IsSome(new_code) THEN Fail("RuntimeCodeNotFoundInRawGenesis")
    ELSE
    LET checked == can_upgrade_code(runtime_obj.version, new_code[1]) IN
    IF checked.res # "Ok" THEN Fail(checked.res)
    ELSE
    LET scheduled_at == checked_add_block(current_block_number,
                                          DomainRuntimeUpgradeDelay)
    IN  IF ~IsSome(scheduled_at) THEN Fail("MaxScheduledBlockNumber")
        ELSE Outcome("Ok", scheduled_at,
                     [ RuntimeRegistry EXCEPT ![runtime_id].version = checked.value[1] ],
                     Insert(ScheduledRuntimeUpgrades,
                            << scheduled_at[1], runtime_id >>,
                            [ raw_genesis |-> decoded[1],
                              version |-> checked.value[1],
                              hash |-> Hashing_hash(new_code[1]) ]),
                     NextRuntimeId)

\* do_schedule_runtime_upgrade that does not look the runtime object up: with
\* no object to compare with, any readable code is scheduled.
do_schedule_runtime_upgrade_NoLookup(runtime_id, raw_genesis_storage, current_block_number) ==
    LET new_raw_genesis == Decode(raw_genesis_storage) IN
    IF ~IsSome(new_raw_genesis) THEN Fail("FailedToDecodeRawGenesis")
    ELSE
    LET new_code == get_runtime_code(new_raw_genesis[1]) IN
    IF ~IsSome(new_code) THEN Fail("RuntimeCodeNotFoundInRawGenesis")
    ELSE
    LET new_runtime_version ==
            IF runtime_id \in DOMAIN RuntimeRegistry
            THEN can_upgrade_code(RuntimeRegistry[runtime_id].version, new_code[1])
            ELSE runtime_version(new_code[1]) IN
    IF new_runtime_version.res # "Ok" THEN Fail(new_runtime_version.res)
    ELSE
    LET scheduled_upgrade == [ raw_genesis |-> new_raw_genesis[1],
                               version |-> new_runtime_version.value[1],
                               hash |-> Hashing_hash(new_code[1]) ]
        scheduled_at == checked_add_block(current_block_number,
                                          DomainRuntimeUpgradeDelay)
    IN  IF ~IsSome(scheduled_at) THEN Fail("MaxScheduledBlockNumber")
        ELSE Outcome("Ok", scheduled_at, RuntimeRegistry,
                     Insert(ScheduledRuntimeUpgrades,
                            << scheduled_at[1], runtime_id >>, scheduled_upgrade),
                     NextRuntimeId)

\* do_schedule_runtime_upgrade that refuses a runtime with a pending upgrade.
do_schedule_runtime_upgrade_RejectPending(runtime_id, raw_genesis_storage, current_block_number) ==
    IF runtime_id \notin DOMAIN RuntimeRegistry THEN Fail("MissingRuntimeObject")
    ELSE
    LET new_raw_genesis == Decode(raw_genesis_storage) IN
    IF ~IsSome(new_raw_genesis) THEN Fail("FailedToDecodeRawGenesis")
    ELSE
    LET new_code == get_runtime_code(new_raw_genesis[1]) IN
    IF ~IsSome(new_code) THEN Fail("RuntimeCodeNotFoundInRawGenesis")
    ELSE
    LET new_runtime_version == can_upgrade_code(RuntimeRegistry[runtime_id].version,
                                                new_code[1]) IN
    IF new_runtime_version.res # "Ok" THEN Fail(new_runtime_version.res)
    ELSE
    LET scheduled_at == checked_add_block(current_block_number,
                                          DomainRuntimeUpgradeDelay)
    IN  IF ~IsSome(scheduled_at) THEN Fail("MaxScheduledBlockNumber")
        ELSE IF \E k \in DOMAIN ScheduledRuntimeUpgrades : k[2] = runtime_id
             THEN Fail("RuntimeUpgradeAlreadyScheduled")
             ELSE Outcome("Ok", scheduled_at, RuntimeRegistry,
                          Insert(ScheduledRuntimeUpgrades,
                                 << scheduled_at[1], runtime_id >>,
                                 [ raw_genesis |-> new_raw_genesis[1],
                                   version |-> new_runtime_version.value[1],
                                   hash |-> Hashing_hash(new_code[1]) ]),
                          NextRuntimeId)

\* do_schedule_runtime_upgrade that decodes the candidate before it looks the
\* runtime object up.
do_schedule_runtime_upgrade_DecodeFirst(runtime_id, raw_genesis_storage, current_block_number) ==
    LET new_raw_genesis == Decode(raw_genesis_storage) IN
    IF ~IsSome(new_raw_genesis) THEN Fail("FailedToDecodeRawGenesis")
    ELSE
    LET new_code == get_runtime_code(new_raw_genesis[1]) IN
    IF ~IsSome(new_code) THEN Fail("RuntimeCodeNotFoundInRawGenesis")
    ELSE
    IF runtime_id \notin DOMAIN RuntimeRegistry THEN Fail("MissingRuntimeObject")
    ELSE
    LET new_runtime_version == can_upgrade_code(RuntimeRegistry[runtime_id].version,
                                                new_code[1]) IN
    IF new_runtime_version.res # "Ok" THEN Fail(new_runtime_version.res)
    ELSE
    LET scheduled_at == checked_add_block(current_block_number,
                                          DomainRuntimeUpgradeDelay)
    IN  IF ~IsSome(scheduled_at) THEN Fail("MaxScheduledBlockNumber")
        ELSE Outcome("Ok", scheduled_at, RuntimeRegistry,
                     Insert(ScheduledRuntimeUpgrades,
                            << scheduled_at[1], runtime_id >>,
                            [ raw_genesis |-> new_raw_genesis[1],
                              version |-> new_runtime_version.value[1],
                              hash |-> Hashing_hash(new_code[1]) ]),
                     NextRuntimeId)

do_schedule_runtime_upgrade(runtime_id, raw_genesis_storage, current_block_number) ==
    IF runtime_id \notin DOMAIN RuntimeRegistry THEN Fail("MissingRuntimeObject")
    ELSE
    LET runtime_obj == RuntimeRegistry[runtime_id]
        new_raw_genesis == Decode(raw_genesis_storage) IN
    IF ~IsSome(new_raw_genesis) THEN Fail("FailedToDecodeRawGenesis")
    ELSE
    LET new_code == get_runtime_code(new_raw_genesis[1]) IN
    IF ~IsSome(new_code) THEN Fail("RuntimeCodeNotFoundInRawGenesis")
    ELSE
    LET new_runtime_version == can_upgrade_code(runtime_obj.version, new_code[1]) IN
    IF new_runtime_version.res # "Ok" THEN Fail(new_runtime_version.res)
    ELSE
    LET new_runtime_hash == Hashing_hash(new_code[1])
        scheduled_upgrade == [ raw_genesis |-> new_raw_genesis[1],
                               version |-> new_runtime_version.value[1],
                               hash |-> new_runtime_hash ]
        scheduled_at == checked_add_block(current_block_number,
                                          DomainRuntimeUpgradeDelay)
    IN  IF ~IsSome(scheduled_at) THEN Fail("MaxScheduledBlockNumber")
        ELSE Outcome("Ok", scheduled_at, RuntimeRegistry,
                     Insert(ScheduledRuntimeUpgrades,
                            << scheduled_at[1], runtime_id >>, scheduled_upgrade),
                     NextRuntimeId)

\* ScheduledRuntimeUpgrades::drain_prefix(at): the runtime ids keyed at `at`.
drain_prefix(at) == { k[2] : k \in { key \in DOMAIN ScheduledRuntimeUpgrades : key[1] = at } }

\* The storage key of a runtime id under the prefix of one block number: the
\* bytes of the SCALE encoding of the u32, least significant byte first.
storage_key(runtime_id) ==
    << runtime_id % 256, (runtime_id \div 256) % 256,
       (runtime_id \div 65536) % 256, (runtime_id \div 16777216) % 256 >>

\* Lexicographic order of two storage keys.
key_less(a, b) ==
    \E n \in 1 .. 4 : /\ a[n] < b[n]
                      /\ \A m \in 1 .. n - 1 : a[m] = b[m]

\* The order in which drain_prefix yields the entries of one prefix: the
\* order of their storage keys, not of the runtime ids (256 comes before 1).
RECURSIVE IterationOrder(_)
IterationOrder(ids) ==
    IF ids = {} THEN << >>
    ELSE LET first == CHOOSE i \in ids :
                         \A j \in ids \ { i } : key_less(storage_key(i), storage_key(j))
         IN  << first >> \o IterationOrder(ids \ { first })

\* The closure passed to RuntimeRegistry::mutate in do_upgrade_runtimes that
\* keeps the hash of the replaced code.
upgrade_runtime_object_StaleHash(runtime_obj, scheduled_update, at) ==
    [ runtime_obj EXCEPT !.raw_genesis = scheduled_update.raw_genesis,
                         !.version = scheduled_update.version,
                         !.runtime_upgrades = saturating_add(runtime_obj.runtime_upgrades),
                         !.updated_at = at ]

\* The closure passed to RuntimeRegistry::mutate in do_upgrade_runtimes that
\* forgets to count the upgrade.
upgrade_runtime_object_NoCount(runtime_obj, scheduled_update, at) ==
    [ runtime_obj EXCEPT !.raw_genesis = scheduled_update.raw_genesis,
                         !.version = scheduled_update.version,
                         !.hash = scheduled_update.hash,
                         !.updated_at = at ]

\* The closure passed to RuntimeRegistry::mutate in do_upgrade_runtimes.
upgrade_runtime_object(runtime_obj, scheduled_update, at) ==
    [ runtime_obj EXCEPT !.raw_genesis = scheduled_update.raw_genesis,
                         !.version = scheduled_update.version,
                         !.hash = scheduled_update.hash,
                         !.runtime_upgrades = saturating_add(runtime_obj.runtime_upgrades),
                         !.updated_at = at ]

\* The body of the for loop of do_upgrade_runtimes, over the drained entries
\* in order: st is [registry, digest, events, panicked].
RECURSIVE upgrade_loop(_, _, _)
upgrade_loop(order, at, st) ==
    IF order = << >> \/ st.panicked THEN st
    ELSE LET runtime_id == Head(order)
             scheduled_update == ScheduledRuntimeUpgrades[<< at, runtime_id >>]
         IN  IF runtime_id \notin DOMAIN st.registry
             THEN [ st EXCEPT !.panicked = TRUE ]
             ELSE upgrade_loop(Tail(order), at,
                    [ registry |-> [ st.registry EXCEPT ![runtime_id] =
                                       upgrade_runtime_object(st.registry[runtime_id],
                                                              scheduled_update, at) ],
                      digest |-> Append(st.digest, runtime_id),
                      events |-> Append(st.events, runtime_id),
                      panicked |-> FALSE ])

\* do_upgrade_runtimes that deposits the digest logs but no event.
do_upgrade_runtimes_NoEvent(at, logs, deposited) ==
    LET ids == drain_prefix(at)
        st == upgrade_loop(IterationOrder(ids), at,
                           [ registry |-> RuntimeRegistry, digest |-> logs,
                             events |-> deposited, panicked |-> FALSE ])
    IN  [ registry |-> st.registry,
          scheduled |-> Remove(ScheduledRuntimeUpgrades, { << at, r >> : r \in ids }),
          digest |-> st.digest, events |-> deposited, panicked |-> st.panicked ]

\* do_upgrade_runtimes that clears the whole map of pending upgrades.
do_upgrade_runtimes_ClearAll(at, logs, deposited) ==
    LET ids == drain_prefix(at)
        st == upgrade_loop(IterationOrder(ids), at,
                           [ registry |-> RuntimeRegistry, digest |-> logs,
                             events |-> deposited, panicked |-> FALSE ])
    IN  [ registry |-> st.registry,
          scheduled |-> << >>,
          digest |-> st.digest, events |-> st.events, panicked |-> st.panicked ]

\* do_upgrade_runtimes(at): logs and deposited are the digest logs and the
\* events of the block before the call.
do_upgrade_runtimes(at, logs, deposited) ==
    LET ids == drain_prefix(at)
        st == upgrade_loop(IterationOrder(ids), at,
                           [ registry |-> RuntimeRegistry, digest |-> logs,
                             events |-> deposited, panicked |-> FALSE ])
    IN  [ registry |-> st.registry,
          scheduled |-> Remove(ScheduledRuntimeUpgrades, { << at, r >> : r \in ids }),
          digest |-> st.digest, events |-> st.events, panicked |-> st.panicked ]

---------------------------------------------------------------------------
\* The registry as a state machine: the calls and the chain driver

\* First block of the run: the genesis block, or a block near the end of the
\* block number and runtime id ranges.
StartPoints == { [ block |-> 0, next_id |-> 0 ],
                 [ block |-> MaxBlockNumber - 1, next_id |-> U32Max - 1 ] }

\* The empty registry at the genesis block, before any call.
RegistryGenesis ==
    /\ block_number = 0
    /\ NextRuntimeId = 0
    /\ DomainRuntimeUpgradeDelay = 0
    /\ RuntimeRegistry = << >>
    /\ ScheduledRuntimeUpgrades = << >>
    /\ digest = << >>
    /\ events = << >>
    /\ panicked = FALSE

\* The state the backend holds at parent_hash: the writes of the chain up to
\* the parent block.
ParentState == << [ id |-> "parent", res |-> "Ok" ] >>

\* The runtime execution context before any call was made on it.
FreshApi == [ changes |-> << << >> >>, recorder |-> None, calls |-> << >> ]

NoResult == [ op |-> "none", res |-> "Ok", block |-> None,
              storage_changes |-> None, proof |-> None, size |-> 0 ]

\* No BlockBuilder exists.
NoBuilder ==
    /\ builder = [ phase |-> "none", debug_assertions |-> FALSE, inspections |-> 0 ]
    /\ extrinsics = << >>
    /\ api = FreshApi
    /\ backend = Some(ParentState)
    /\ result = NoResult

\* No RawGenesis was materialized.
NoRawGenesis == complete_raw_genesis = None

\* GenesisConfig::default() as stored by genesis build; no call was made.
DefaultConfigs ==
    /\ EnableDomains = FALSE
    /\ EnableDynamicCostOfStorage = FALSE
    /\ EnableBalanceTransfers = FALSE
    /\ EnableNonRootCalls = FALSE
    /\ ConfirmationDepthK = DefaultConfirmationDepthK
    /\ dispatch_result = [ call |-> "none", res |-> "Ok" ]

RegistryInit ==
    /\ NoBuilder
    /\ NoRawGenesis
    /\ DefaultConfigs
    /\ \E start \in StartPoints :
          /\ block_number = start.block
          /\ NextRuntimeId = start.next_id
    /\ DomainRuntimeUpgradeDelay \in 0 .. MaxDelay
    /\ RuntimeRegistry = << >>
    /\ ScheduledRuntimeUpgrades = << >>
    /\ digest = << >>
    /\ events = << >>
    /\ panicked = FALSE

\* The first block number of the behaviour, recovered from the state.
StartBlock == IF block_number >= MaxBlockNumber - 1 THEN MaxBlockNumber - 1 ELSE 0

\* The number of upgrades applied to the objects with ids in `ids`.
RECURSIVE AppliedUpgrades(_, _)
AppliedUpgrades(registry, ids) ==
    IF ids = {} THEN 0
    ELSE LET r == CHOOSE i \in ids : TRUE
         IN  registry[r].runtime_upgrades + AppliedUpgrades(registry, ids \ { r })

\* What a storage state holds: its objects, its pending upgrades and the
\* upgrades already applied.
Work(registry, scheduled) ==
    Cardinality(DOMAIN registry) + Cardinality(DOMAIN scheduled)
        + AppliedUpgrades(registry, DOMAIN registry)

\* The first runtime id of the behaviour, recovered from the state.
StartId == IF NextRuntimeId >= U32Max - 1 THEN U32Max - 1 ELSE 0

\* Runtime ids the calls are made with: the first two ids of the behaviour.
RuntimeIdInputs == { StartId, StartId + 1 }

\* register_domain_runtime: do_register_runtime at the current block.
RegisterDomainRuntime(runtime_name, runtime_type, raw_genesis_storage) ==
    \E o \in { do_register_runtime(runtime_name, runtime_type,
                                   raw_genesis_storage, block_number) } :
        /\ ~panicked
        /\ Work(o.registry, o.scheduled) <= MaxWork
        /\ RuntimeRegistry' = o.registry
        /\ ScheduledRuntimeUpgrades' = o.scheduled
        /\ NextRuntimeId' = o.next_id
        /\ UNCHANGED << DomainRuntimeUpgradeDelay, block_number,
                        digest, events, panicked, builderVars,
                        complete_raw_genesis, configVars >>

\* Genesis build: register_runtime_at_genesis with the version the genesis
\* configuration declares, in the first block of the behaviour.
RegisterRuntimeAtGenesis(runtime_name, runtime_type, runtime_version_, raw_genesis_storage) ==
    \E o \in { register_runtime_at_genesis(runtime_name, runtime_type, runtime_version_,
                                           raw_genesis_storage, block_number) } :
        /\ ~panicked
        /\ block_number = StartBlock
        /\ NextRuntimeId - StartId < MaxGenesisRuntimes
        /\ Work(o.registry, o.scheduled) <= MaxWork
        /\ RuntimeRegistry' = o.registry
        /\ ScheduledRuntimeUpgrades' = o.scheduled
        /\ NextRuntimeId' = o.next_id
        /\ UNCHANGED << DomainRuntimeUpgradeDelay, block_number,
                        digest, events, panicked, builderVars,
                        complete_raw_genesis, configVars >>

\* upgrade_domain_runtime: do_schedule_runtime_upgrade at the current block.
UpgradeDomainRuntime(runtime_id, raw_genesis_storage) ==
    \E o \in { do_schedule_runtime_upgrade(runtime_id, raw_genesis_storage,
                                           block_number) } :
        /\ ~panicked
        /\ Work(o.registry, o.scheduled) <= MaxWork
        /\ RuntimeRegistry' = o.registry
        /\ ScheduledRuntimeUpgrades' = o.scheduled
        /\ NextRuntimeId' = o.next_id
        /\ UNCHANGED << DomainRuntimeUpgradeDelay, block_number,
                        digest, events, panicked, builderVars,
                        complete_raw_genesis, configVars >>

\* go_to_block, one iteration of its loop: the events and the digest of the
\* block start empty (System::reset_events, System::initialize), the block
\* number advances and Domains::on_initialize runs the hook of the new block
\* before any call of that block.
GoToBlock ==
    /\ ~panicked
    /\ block_number < MaxBlockNumber
    /\ block_number - StartBlock < MaxBlocks
    /\ \E o \in { do_upgrade_runtimes(block_number + 1, << >>, << >>) } :
          /\ block_number' = block_number + 1
          /\ panicked' = o.panicked
          /\ RuntimeRegistry' = IF o.panicked THEN RuntimeRegistry ELSE o.registry
          /\ ScheduledRuntimeUpgrades' =
                IF o.panicked THEN ScheduledRuntimeUpgrades ELSE o.scheduled
          /\ digest' = IF o.panicked THEN << >> ELSE o.digest
          /\ events' = IF o.panicked THEN << >> ELSE o.events
    /\ UNCHANGED << NextRuntimeId, DomainRuntimeUpgradeDelay, builderVars,
                    complete_raw_genesis, configVars >>

RegistryNext ==
    \/ \E n \in RuntimeNames, t \in RuntimeTypes, b \in RegisteredGenesisStorages :
          RegisterDomainRuntime(n, t, b)
    \/ \E n \in RuntimeNames, t \in RuntimeTypes, v \in GenesisRuntimeVersions,
          b \in RegisteredGenesisStorages :
          RegisterRuntimeAtGenesis(n, t, v, b)
    \/ \E r \in RuntimeIdInputs, b \in RawGenesisStorages :
          UpgradeDomainRuntime(r, b)
    \/ GoToBlock

RegistrySpec == RegistryInit /\ [][RegistryNext]_vars

---------------------------------------------------------------------------
\* Properties of the runtime registry

\* The step is go_to_block: the hook of height block_number' runs in it.
HookStep == block_number' # block_number

\* The candidate version a raw genesis storage carries, if it decodes, holds
\* code and the code declares a version.
CandidateVersion(raw_genesis_storage) ==
    IF /\ IsSome(Decode(raw_genesis_storage))
       /\ IsSome(get_runtime_code(Decode(raw_genesis_storage)[1]))
    THEN runtime_version(get_runtime_code(Decode(raw_genesis_storage)[1])[1]).value
    ELSE None

\* The runtime ids returned by successful registrations.
RegisteredIds == { r \in DOMAIN RuntimeRegistry : r < NextRuntimeId }

\* C3: the spec_version of a registered runtime's RuntimeObject never
\* decreases in a scheduleUpgrade or applyDueUpgrades step, and every
\* activation strictly increases the spec_version of the activated object.
C3_SpecVersionNeverDecreases ==
    [][ (HookStep \/ ScheduledRuntimeUpgrades' # ScheduledRuntimeUpgrades)
        => \A r \in RegisteredIds :
              /\ r \in DOMAIN RuntimeRegistry'
              /\ RuntimeRegistry'[r].version.spec_version
                    >= RuntimeRegistry[r].version.spec_version
              /\ (HookStep /\ r \in drain_prefix(block_number'))
                    => RuntimeRegistry'[r].version.spec_version
                          > RuntimeRegistry[r].version.spec_version ]_vars

\* C4: the hook at height h removes each entry (h, r) and folds it into
\* RuntimeObject r: genesis image, version and code hash are the entry's,
\* upgrade_count is one more, updated_at is h, and name, kind and created_at
\* are unchanged.
C4_ActivationFoldsEntry ==
    [][ HookStep =>
          \A r \in drain_prefix(block_number') :
             LET entry == ScheduledRuntimeUpgrades[<< block_number', r >>]
                 old == RuntimeRegistry[r]
                 new == RuntimeRegistry'[r]
             IN  /\ << block_number', r >> \notin DOMAIN ScheduledRuntimeUpgrades'
                 /\ r \in DOMAIN RuntimeRegistry'
                 /\ new.raw_genesis = entry.raw_genesis
                 /\ new.version = entry.version
                 /\ new.hash = entry.hash
                 /\ new.runtime_upgrades = old.runtime_upgrades + 1
                 /\ new.updated_at = block_number'
                 /\ new.runtime_name = old.runtime_name
                 /\ new.runtime_type = old.runtime_type
                 /\ new.created_at = old.created_at ]_vars

\* C4 witness: the hook of the current block has activated an upgrade.
C4_Witness ==
    /\ block_number > StartBlock
    /\ \E r \in DOMAIN RuntimeRegistry :
          /\ RuntimeRegistry[r].runtime_upgrades = 1
          /\ RuntimeRegistry[r].updated_at = block_number
          /\ RuntimeRegistry[r].created_at < block_number
          /\ Len(events) = 1

\* No entry is pending once the hook of its activation height has run (no
\* hook runs for the first block of the behaviour).
NoStaleEntry ==
    \A k \in DOMAIN ScheduledRuntimeUpgrades :
        \/ k[1] > block_number
        \/ k[1] = block_number /\ block_number = StartBlock

\* C5: with the hook run once for every block height in increasing order,
\* for every upgrade delay >= 0 every entry stored by a successful
\* scheduleUpgrade is removed at exactly its activation height: no entry
\* stays pending once the hook for its activation height has run.
C5_NoEntryOutlivesItsHeight == NoStaleEntry


\* C6: a successful scheduleUpgrade(r, candidate) at height H returns H + D
\* and changes nothing but the pending entry at (H + D, r), which carries the
\* candidate's genesis image, version and code hash.
C6_ScheduleOnlyAddsEntry ==
    [][ \A r \in RuntimeIdInputs, b \in RawGenesisStorages :
          LET o == do_schedule_runtime_upgrade(r, b, block_number)
              key == << block_number + DomainRuntimeUpgradeDelay, r >>
          IN  ( /\ o.res = "Ok"
                /\ UNCHANGED block_number
                /\ UpgradeDomainRuntime(r, b) )
              => /\ o.value = Some(block_number + DomainRuntimeUpgradeDelay)
                 /\ RuntimeRegistry' = RuntimeRegistry
                 /\ NextRuntimeId' = NextRuntimeId
                 /\ DOMAIN ScheduledRuntimeUpgrades'
                       = DOMAIN ScheduledRuntimeUpgrades \cup { key }
                 /\ \A k \in DOMAIN ScheduledRuntimeUpgrades \ { key } :
                       ScheduledRuntimeUpgrades'[k] = ScheduledRuntimeUpgrades[k]
                 /\ ScheduledRuntimeUpgrades'[key].raw_genesis = Decode(b)[1]
                 /\ Some(ScheduledRuntimeUpgrades'[key].version) = CandidateVersion(b)
                 /\ ScheduledRuntimeUpgrades'[key].hash
                       = Hashing_hash(get_runtime_code(Decode(b)[1])[1]) ]_vars

\* C6 witness: an upgrade is pending for a runtime whose object still has
\* its registered version and no applied upgrade.
C6_Witness ==
    \E k \in DOMAIN ScheduledRuntimeUpgrades :
        /\ k[2] \in DOMAIN RuntimeRegistry
        /\ RuntimeRegistry[k[2]].version # ScheduledRuntimeUpgrades[k].version
        /\ RuntimeRegistry[k[2]].runtime_upgrades = 0
        /\ k[1] = block_number + DomainRuntimeUpgradeDelay

\* The candidates whose spec name differs from that of runtime r.
OtherNameCandidates(r) ==
    { b \in RawGenesisStorages :
        /\ IsSome(CandidateVersion(b))
        /\ CandidateVersion(b)[1].spec_name # RuntimeRegistry[r].version.spec_name }

\* C7: for every registered runtime, scheduleUpgrade with a candidate whose
\* spec name differs from the object's fails with InvalidSpecName and leaves
\* the registry storage as it was.
C7_OtherSpecNameRejected ==
    \A r \in DOMAIN RuntimeRegistry :
        \A b \in OtherNameCandidates(r) :
            LET o == do_schedule_runtime_upgrade(r, b, block_number)
            IN  /\ o.res = "InvalidSpecName"
                /\ o.value = None
                /\ o.registry = RuntimeRegistry
                /\ o.scheduled = ScheduledRuntimeUpgrades
                /\ o.next_id = NextRuntimeId
                /\ ~ ENABLED (UpgradeDomainRuntime(r, b) /\ registryStorage' # registryStorage)

\* C7 witness: a runtime is registered, an upgrade is pending for it, and a
\* candidate of another spec name is rejected with InvalidSpecName.
C7_Witness ==
    \E r \in DOMAIN RuntimeRegistry :
        /\ OtherNameCandidates(r) # {}
        /\ \E k \in DOMAIN ScheduledRuntimeUpgrades : k[2] = r
        /\ \E b \in OtherNameCandidates(r) :
              do_schedule_runtime_upgrade(r, b, block_number).res = "InvalidSpecName"

\* The candidates of runtime r's spec name, split by spec_version.
SameNameCandidates(r) ==
    { b \in RawGenesisStorages :
        /\ IsSome(CandidateVersion(b))
        /\ CandidateVersion(b)[1].spec_name = RuntimeRegistry[r].version.spec_name }

\* C8: for every registered runtime, a candidate of the same spec name with
\* spec_version <= the object's fails with SpecVersionNeedsToIncrease and
\* stores nothing; one with a greater spec_version passes the compatibility
\* check, and is scheduled unless the activation height overflows.
C8_SpecVersionMustIncrease ==
    \A r \in DOMAIN RuntimeRegistry :
        \A b \in SameNameCandidates(r) :
            LET o == do_schedule_runtime_upgrade(r, b, block_number)
                current == RuntimeRegistry[r].version
                candidate == CandidateVersion(b)[1]
            IN  IF candidate.spec_version <= current.spec_version
                THEN /\ o.res = "SpecVersionNeedsToIncrease"
                     /\ o.scheduled = ScheduledRuntimeUpgrades
                     /\ o.registry = RuntimeRegistry
                ELSE /\ o.res = IF DomainRuntimeUpgradeDelay > MaxBlockNumber - block_number
                                THEN "MaxScheduledBlockNumber" ELSE "Ok"
                     /\ o.res = "Ok" =>
                           << block_number + DomainRuntimeUpgradeDelay, r >>
                              \in DOMAIN o.scheduled

\* C8 witness: a registered runtime above the lowest spec_version for which
\* candidates with a lower, an equal and a greater spec_version exist.
C8_Witness ==
    \E r \in DOMAIN RuntimeRegistry :
        LET current == RuntimeRegistry[r].version.spec_version
        IN  /\ \E b \in SameNameCandidates(r) : CandidateVersion(b)[1].spec_version < current
            /\ \E b \in SameNameCandidates(r) : CandidateVersion(b)[1].spec_version = current
            /\ \E b \in SameNameCandidates(r) :
                  /\ CandidateVersion(b)[1].spec_version > current
                  /\ do_schedule_runtime_upgrade(r, b, block_number).res = "Ok"
            /\ RuntimeRegistry[r].runtime_upgrades >= 1

\* C9: next_runtime_id never decreases; it changes only in a successful
\* register, which returns the old value and increases it by exactly 1;
\* failed registers, scheduleUpgrade and applyDueUpgrades leave it unchanged.
C9_NextRuntimeIdCounts ==
    [][ /\ NextRuntimeId' >= NextRuntimeId
        /\ (HookStep \/ ScheduledRuntimeUpgrades' # ScheduledRuntimeUpgrades)
              => NextRuntimeId' = NextRuntimeId
        /\ \A n \in RuntimeNames, t \in RuntimeTypes, b \in RegisteredGenesisStorages :
              LET o == do_register_runtime(n, t, b, block_number)
              IN  ( UNCHANGED block_number
                    /\ RegisterDomainRuntime(n, t, b) )
                  => IF o.res = "Ok"
                     THEN /\ o.value = Some(NextRuntimeId)
                          /\ NextRuntimeId' = NextRuntimeId + 1
                          /\ NextRuntimeId \notin DOMAIN RuntimeRegistry
                     ELSE NextRuntimeId' = NextRuntimeId ]_vars

\* C9 witness: two registrations have succeeded.
C9_Witness ==
    /\ NextRuntimeId = 2
    /\ DOMAIN RuntimeRegistry = { 0, 1 }

\* C10: when next_runtime_id is the maximum RuntimeId, a register call
\* leaves the registry storage as it was.
C10_RegisterFailsClosed ==
    [][ \A n \in RuntimeNames, t \in RuntimeTypes, b \in RawGenesisStorages :
          (NextRuntimeId = U32Max /\ RegisterDomainRuntime(n, t, b))
          => /\ do_register_runtime(n, t, b, block_number).res # "Ok"
             /\ UNCHANGED registryStorage ]_vars

---------------------------------------------------------------------------
\* Block builder (domains/client/block-builder/src/lib.rs)

\* Bounds of the block builder model

\* Longest caller-supplied transaction list.
MaxQueue == 3

\* Number of prepare_storage_changes_* and estimate_block_size calls made on
\* one builder before build.
MaxInspections == 1

\* Transactions: what the runtime's apply_extrinsic returns for each one
\* ("Ok", a transaction-validity error, or an API error).
Xts == { [ id |-> "a", res |-> "Ok" ], [ id |-> "b", res |-> "Ok" ],
         [ id |-> "c", res |-> "Invalid" ], [ id |-> "d", res |-> "Fault" ] }

\* Inherents the runtime synthesizes.
Inherent(id) == [ id |-> id, res |-> "Ok" ]

\* The writes the runtime makes outside of transactions.
RuntimeWrite(id) == [ id |-> id, res |-> "Ok" ]

\* maybe_inherent_data: None, or data from which the runtime creates these
\* inherents (ok) or fails to (~ok).
InherentDatas ==
    { None,
      Some([ ok |-> TRUE, exts |-> << Inherent("i1"), Inherent("i2") >> ]),
      Some([ ok |-> FALSE, exts |-> << >> ]) }

\* The transaction lists of at most n distinct members of S.
RECURSIVE SeqsUpTo(_, _)
SeqsUpTo(S, n) ==
    IF n = 0 THEN { << >> }
    ELSE LET shorter == SeqsUpTo(S, n - 1)
         IN  shorter \cup
             UNION { { Append(q, x) : x \in S \ { q[i] : i \in DOMAIN q } } :
                     q \in shorter }

\* The caller-supplied transaction lists.
SuppliedExtrinsics == SeqsUpTo(Xts, MaxQueue)

\* The indices prepare_storage_changes_before is called with: every
\* position of the longest queue, and positions past its end.
ExtrinsicIndices == 0 .. MaxQueue + 3

\* The digest items the caller passes to BlockBuilder::new.
InherentDigests == << "pre_runtime" >>

\* The block the builder builds on.
Parent == [ hash |-> "parent", number |-> 0 ]

\* ---- the runtime execution context (ApiRef): the overlay `changes` is a
\* stack of layers, one per open transaction scope above the base layer;
\* each layer is the sequence of writes made so far.

Top(changes) == changes[Len(changes)]

\* A runtime call writes to the current layer; with proof recording on, the
\* call is recorded.
RuntimeCall(a, name, write) ==
    [ changes |-> [ a.changes EXCEPT ![Len(a.changes)] = Append(@, write) ],
      recorder |-> IF IsSome(a.recorder) THEN Some(Append(a.recorder[1], name))
                   ELSE None,
      calls |-> Append(a.calls, name) ]

\* ApiExt::record_proof
record_proof(a) ==
    [ a EXCEPT !.recorder = Some(<< >>), !.calls = Append(@, "record_proof") ]

\* start of execute_in_transaction: open a nested scope
start_transaction(a) ==
    [ a EXCEPT !.changes = Append(@, Top(@)), !.calls = Append(@, "start") ]

\* TransactionOutcome::Commit: the scope's writes join the enclosing layer
commit_transaction(a) ==
    [ a EXCEPT !.changes = Append(SubSeq(@, 1, Len(@) - 2), Top(@)),
               !.calls = Append(@, "commit") ]

\* TransactionOutcome::Rollback: the scope's writes are discarded
rollback_transaction(a) ==
    [ a EXCEPT !.changes = SubSeq(@, 1, Len(@) - 1),
               !.calls = Append(@, "rollback") ]

\* Core::initialize_block
initialize_block(a) == RuntimeCall(a, "initialize_block", RuntimeWrite("init"))

\* BlockBuilderApi::apply_extrinsic: the runtime notes the extrinsic and
\* writes its effects, then reports the outcome.
apply_extrinsic(a, xt) ==
    [ api |-> RuntimeCall(a, "apply_extrinsic", xt), res |-> xt.res ]

\* BlockBuilderApi::inherent_extrinsics
inherent_extrinsics(a, inherent_data) ==
    [ api |-> RuntimeCall(a, "inherent_extrinsics", RuntimeWrite("inherent_data")),
      res |-> IF inherent_data.ok THEN "Ok" ELSE "ApiError",
      exts |-> inherent_data.exts ]

\* HashingFor::<Block>::ordered_trie_root of the encoded extrinsics
ordered_trie_root(xts) == [ root_of |-> xts ]

\* The extrinsics noted in a layer: the writes that are transactions.
RECURSIVE Noted(_)
Noted(layer) ==
    IF layer = << >> THEN << >>
    ELSE IF Head(layer).id \in { "init", "inherent_data", "finalize" }
         THEN Noted(Tail(layer))
         ELSE << Head(layer) >> \o Noted(Tail(layer))

\* BlockBuilderApi::finalize_block: the header the runtime returns, whose
\* extrinsics root is over the extrinsics noted in its state.
finalize_block(a, inherent_digests) ==
    [ api |-> RuntimeCall(a, "finalize_block", RuntimeWrite("finalize")),
      header |-> [ number |-> Parent.number + 1,
                   parent_hash |-> Parent.hash,
                   extrinsics_root |-> ordered_trie_root(Noted(Top(a.changes))),
                   digest |-> inherent_digests ] ]

\* ApiExt::extract_proof
extract_proof(a) == a.recorder

\* ApiExt::into_storage_changes: the committed changes are drained out of
\* the overlay, or the call fails and hands out nothing.
into_storage_changes(a, changes_ok) ==
    IF ~changes_ok
    THEN [ api |-> a, res |-> "Err", storage_changes |-> None ]
    ELSE [ api |-> [ a EXCEPT !.changes = << << >> >>,
                              !.calls = Append(@, "into_storage_changes") ],
           res |-> "Ok",
           storage_changes |-> Some(Top(a.changes)) ]

\* ---- BlockBuilder

\* execute_in_transaction around apply_extrinsic, keeping a failed
\* transaction's writes.
apply_in_transaction_NoRollback(a, xt) ==
    LET applied == apply_extrinsic(start_transaction(a), xt)
    IN  [ api |-> commit_transaction(applied.api), res |-> applied.res ]

\* execute_in_transaction around apply_extrinsic that returns on a failure
\* without closing the scope.
apply_in_transaction_LeakOnError(a, xt) ==
    LET applied == apply_extrinsic(start_transaction(a), xt)
    IN  IF applied.res = "Ok"
        THEN [ api |-> commit_transaction(applied.api), res |-> "Ok" ]
        ELSE [ api |-> applied.api, res |-> applied.res ]

\* execute_in_transaction around apply_extrinsic (lines 201-209, 238-247):
\* commit on Ok(Ok(_)), roll back on a validity error and on an API error.
apply_in_transaction(a, xt) ==
    LET applied == apply_extrinsic(start_transaction(a), xt)
    IN  IF applied.res = "Ok"
        THEN [ api |-> commit_transaction(applied.api), res |-> "Ok" ]
        ELSE [ api |-> rollback_transaction(applied.api), res |-> applied.res ]

\* BlockBuilder::execute_extrinsics: every queued transaction in order, each
\* in its own scope; a failure is logged and the loop goes on.
RECURSIVE execute_extrinsics(_, _)
execute_extrinsics(a, xts) ==
    IF xts = << >> THEN a
    ELSE execute_extrinsics(apply_in_transaction(a, Head(xts)).api, Tail(xts))

\* BlockBuilder::collect_storage_changes: backend.state_at(parent_hash), then
\* into_storage_changes, its error mapped to Error::StorageChanges.
collect_storage_changes(a, backend_ok, changes_ok) ==
    IF ~backend_ok
    THEN [ api |-> a, res |-> "BackendError", storage_changes |-> None ]
    ELSE LET drained == into_storage_changes(a, changes_ok)
         IN  IF drained.res # "Ok"
             THEN [ api |-> drained.api, res |-> "StorageChanges",
                    storage_changes |-> None ]
             ELSE [ api |-> drained.api, res |-> "Ok",
                    storage_changes |-> drained.storage_changes ]

\* BlockBuilder::create_inherents that commits the scope when the runtime
\* call succeeds.
create_inherents_CommitOnOk(a, inherent_data) ==
    LET called == inherent_extrinsics(start_transaction(a), inherent_data)
    IN  [ api |-> IF called.res = "Ok" THEN commit_transaction(called.api)
                  ELSE rollback_transaction(called.api),
          res |-> called.res,
          exts |-> IF called.res = "Ok" THEN called.exts ELSE << >> ]

\* BlockBuilder::create_inherents: the runtime call in a scope that is always
\* rolled back.
create_inherents(a, inherent_data) ==
    LET called == inherent_extrinsics(start_transaction(a), inherent_data)
    IN  [ api |-> rollback_transaction(called.api), res |-> called.res,
          exts |-> IF called.res = "Ok" THEN called.exts ELSE << >> ]

\* The loop of BlockBuilder::new, pushing each inherent to the back instead.
push_back_all(queue, inherent_extrinsics_) == queue \o inherent_extrinsics_

\* The loop of BlockBuilder::new that pushes each inherent to the front.
RECURSIVE push_front_all(_, _)
push_front_all(queue, inherent_extrinsics_) ==
    IF inherent_extrinsics_ = << >> THEN queue
    ELSE push_front_all(<< Head(inherent_extrinsics_) >> \o queue,
                        Tail(inherent_extrinsics_))

\* BlockBuilder::new that turns proof recording on after initialize_block.
new_RecordAfterInitialize(record_proof_, supplied, maybe_inherent_data, init_ok) ==
    LET a0 == initialize_block(FreshApi)
        a1 == IF record_proof_ THEN record_proof(a0) ELSE a0
    IN  IF ~init_ok
        THEN [ res |-> "ApiError", api |-> FreshApi, extrinsics |-> supplied ]
        ELSE IF ~IsSome(maybe_inherent_data)
        THEN [ res |-> "Ok", api |-> a1, extrinsics |-> supplied ]
        ELSE LET created == create_inherents(a1, maybe_inherent_data[1])
             IN  IF created.res # "Ok"
                 THEN [ res |-> "ApplicationError", api |-> created.api,
                        extrinsics |-> supplied ]
                 ELSE [ res |-> "Ok", api |-> created.api,
                        extrinsics |-> push_front_all(supplied, created.exts) ]

\* BlockBuilder::new
new(record_proof_, supplied, maybe_inherent_data, init_ok) ==
    LET a0 == IF record_proof_ THEN record_proof(FreshApi) ELSE FreshApi
        a1 == initialize_block(a0)
    IN  IF ~init_ok
        THEN [ res |-> "ApiError", api |-> a0, extrinsics |-> supplied ]
        ELSE IF ~IsSome(maybe_inherent_data)
        THEN [ res |-> "Ok", api |-> a1, extrinsics |-> supplied ]
        ELSE LET created == create_inherents(a1, maybe_inherent_data[1])
             IN  IF created.res # "Ok"
                 THEN [ res |-> "ApplicationError", api |-> created.api,
                        extrinsics |-> supplied ]
                 ELSE [ res |-> "Ok", api |-> created.api,
                        extrinsics |-> push_front_all(supplied, created.exts) ]

\* The loop of prepare_storage_changes_before from position `index` (1-based
\* here) on: st is where the loop stopped and with what.
RECURSIVE prepare_loop(_, _, _, _, _, _)
prepare_loop(a, xts, index, extrinsic_index, backend_ok, changes_ok) ==
    IF index > Len(xts)
    THEN [ api |-> a, res |-> "InvalidExtrinsicIndex", storage_changes |-> None ]
    ELSE IF index - 1 = extrinsic_index
    THEN collect_storage_changes(a, backend_ok, changes_ok)
    ELSE LET applied == apply_in_transaction(a, xts[index])
         IN  IF applied.res # "Ok"
             THEN [ api |-> applied.api, res |-> applied.res,
                    storage_changes |-> None ]
             ELSE prepare_loop(applied.api, xts, index + 1, extrinsic_index,
                               backend_ok, changes_ok)

\* prepare_storage_changes_before that takes the position after the last
\* transaction for a valid index.
prepare_storage_changes_before_EndIncluded(a, xts, extrinsic_index, backend_ok, changes_ok) ==
    LET looped == prepare_loop(a, xts, 1, extrinsic_index, backend_ok, changes_ok)
    IN  IF extrinsic_index = Len(xts) /\ looped.res = "InvalidExtrinsicIndex"
        THEN collect_storage_changes(looped.api, backend_ok, changes_ok)
        ELSE looped

\* prepare_storage_changes_before that checks the index before it applies
\* anything.
prepare_storage_changes_before_RangeFirst(a, xts, extrinsic_index, backend_ok, changes_ok) ==
    IF extrinsic_index >= Len(xts)
    THEN [ api |-> a, res |-> "InvalidExtrinsicIndex", storage_changes |-> None ]
    ELSE prepare_loop(a, xts, 1, extrinsic_index, backend_ok, changes_ok)

\* BlockBuilder::prepare_storage_changes_before
prepare_storage_changes_before(a, xts, extrinsic_index, backend_ok, changes_ok) ==
    prepare_loop(a, xts, 1, extrinsic_index, backend_ok, changes_ok)

\* BlockBuilder::prepare_storage_changes_before_finalize_block
prepare_storage_changes_before_finalize_block(a, xts, backend_ok, changes_ok) ==
    collect_storage_changes(execute_extrinsics(a, xts), backend_ok, changes_ok)

\* BlockBuilder::build.  A failed debug_assert_eq! is a panic, in builds that
\* have debug assertions.
build(a, xts, debug_assertions, finalize_ok, backend_ok, changes_ok) ==
    LET executed == execute_extrinsics(a, xts)
        finalized == finalize_block(executed, InherentDigests)
        proof == extract_proof(finalized.api)
        collected == collect_storage_changes(finalized.api, backend_ok, changes_ok)
        Failed(res, a1) == [ res |-> res, api |-> a1, block |-> None,
                             storage_changes |-> None, proof |-> None ]
    IN  IF ~finalize_ok THEN Failed("ApiError", executed)
        ELSE IF debug_assertions
                /\ finalized.header.extrinsics_root # ordered_trie_root(xts)
        THEN Failed("Panic", finalized.api)
        ELSE IF collected.res # "Ok" THEN Failed(collected.res, collected.api)
        ELSE [ res |-> "Ok", api |-> collected.api,
               block |-> Some([ header |-> finalized.header, extrinsics |-> xts ]),
               storage_changes |-> collected.storage_changes,
               proof |-> Some(proof) ]

\* header.encoded_size() of the header made in BlockBuilder::new: one unit
\* per field.
estimated_header_size == 5

\* VecDeque::encoded_size: a length prefix and one unit per transaction.
encoded_size(xts) == 1 + Len(xts)

\* ProofRecorder::estimate_encoded_size: one unit per recorded call.
estimate_encoded_size(recorder) == Len(recorder)

\* BlockBuilder::estimate_block_size
estimate_block_size(a, xts, include_proof) ==
    LET size == estimated_header_size + encoded_size(xts)
    IN  IF include_proof
        THEN size + (IF IsSome(a.recorder) THEN estimate_encoded_size(a.recorder[1])
                     ELSE 0)
        ELSE size

---------------------------------------------------------------------------
\* The block builder as a state machine: one builder, from construction to
\* build

\* What a BlockBuilder operation returned.
Returned(op, res, block, storage_changes, proof, size) ==
    [ op |-> op, res |-> res, block |-> block,
      storage_changes |-> storage_changes, proof |-> proof, size |-> size ]

BuilderInit ==
    /\ RegistryGenesis
    /\ NoBuilder
    /\ NoRawGenesis
    /\ DefaultConfigs

\* BlockBuilder::new(.., record_proof, inherent_digests, backend, extrinsics,
\* maybe_inherent_data), in a binary built with or without debug assertions.
New(record_proof_, supplied, maybe_inherent_data, init_ok, backend_ok, debug) ==
    /\ builder.phase = "none"
    /\ result.op = "none"
    /\ \E o \in { new(record_proof_, supplied, maybe_inherent_data, init_ok) } :
          /\ result' = Returned("new", o.res, None, None, None, 0)
          /\ IF o.res = "Ok"
             THEN /\ builder' = [ phase |-> "ready", debug_assertions |-> debug,
                                  inspections |-> 0 ]
                  /\ extrinsics' = o.extrinsics
                  /\ api' = o.api
                  /\ backend' = IF backend_ok THEN Some(ParentState) ELSE None
             ELSE UNCHANGED << builder, extrinsics, api, backend >>
    /\ UNCHANGED << registryVars, complete_raw_genesis, configVars >>

\* builder.prepare_storage_changes_before(extrinsic_index)
PrepareStorageChangesBefore(extrinsic_index, changes_ok) ==
    /\ builder.phase = "ready"
    /\ builder.inspections < MaxInspections
    /\ \E o \in { prepare_storage_changes_before(api, extrinsics, extrinsic_index,
                                                 IsSome(backend), changes_ok) } :
          /\ api' = o.api
          /\ result' = Returned("prepare_storage_changes_before", o.res, None,
                                o.storage_changes, None, 0)
    /\ builder' = [ builder EXCEPT !.inspections = @ + 1 ]
    /\ UNCHANGED << extrinsics, backend, registryVars,
                    complete_raw_genesis, configVars >>

\* builder.prepare_storage_changes_before_finalize_block()
PrepareStorageChangesBeforeFinalizeBlock(changes_ok) ==
    /\ builder.phase = "ready"
    /\ builder.inspections < MaxInspections
    /\ \E o \in { prepare_storage_changes_before_finalize_block(api, extrinsics,
                                                                IsSome(backend), changes_ok) } :
          /\ api' = o.api
          /\ result' = Returned("prepare_storage_changes_before_finalize_block",
                                o.res, None, o.storage_changes, None, 0)
    /\ builder' = [ builder EXCEPT !.inspections = @ + 1 ]
    /\ UNCHANGED << extrinsics, backend, registryVars,
                    complete_raw_genesis, configVars >>

\* builder.estimate_block_size(include_proof)
EstimateBlockSize(include_proof) ==
    /\ builder.phase = "ready"
    /\ result' = Returned("estimate_block_size", "Ok", None, None, None,
                          estimate_block_size(api, extrinsics, include_proof))
    /\ UNCHANGED << builder, extrinsics, api, backend, registryVars,
                    complete_raw_genesis, configVars >>

\* The BlockBuilder is dropped before build: the execution context and its
\* overlay go with it.
Discard ==
    /\ builder.phase = "ready"
    /\ builder' = [ builder EXCEPT !.phase = "discarded" ]
    /\ UNCHANGED << extrinsics, api, backend, result, registryVars,
                    complete_raw_genesis, configVars >>

\* builder.build() that also commits the state delta it returns to the
\* backend.
Build_CommitsToBackend(finalize_ok, changes_ok) ==
    /\ builder.phase = "ready"
    /\ \E o \in { build(api, extrinsics, builder.debug_assertions, finalize_ok,
                        IsSome(backend), changes_ok) } :
          /\ api' = o.api
          /\ result' = Returned("build", o.res, o.block, o.storage_changes,
                                o.proof, 0)
          /\ backend' = IF o.res = "Ok"
                        THEN Some(backend[1] \o o.storage_changes[1])
                        ELSE backend
    /\ builder' = [ builder EXCEPT !.phase = "consumed" ]
    /\ UNCHANGED << extrinsics, registryVars,
                    complete_raw_genesis, configVars >>

\* builder.build(): consumes the builder.  `extrinsics` keeps the queue the
\* builder held.
Build(finalize_ok, changes_ok) ==
    /\ builder.phase = "ready"
    /\ \E o \in { build(api, extrinsics, builder.debug_assertions, finalize_ok,
                        IsSome(backend), changes_ok) } :
          /\ api' = o.api
          /\ result' = Returned("build", o.res, o.block, o.storage_changes,
                                o.proof, 0)
    /\ builder' = [ builder EXCEPT !.phase = "consumed" ]
    /\ UNCHANGED << extrinsics, backend, registryVars,
                    complete_raw_genesis, configVars >>

BuilderNext ==
    \/ /\ builder.phase = "none"
       /\ \E record_proof_ \in BOOLEAN, supplied \in SuppliedExtrinsics,
             maybe_inherent_data \in InherentDatas, init_ok \in BOOLEAN,
             backend_ok \in BOOLEAN, debug \in BOOLEAN :
             New(record_proof_, supplied, maybe_inherent_data, init_ok, backend_ok,
                 debug)
    \/ \E extrinsic_index \in ExtrinsicIndices, changes_ok \in BOOLEAN :
          PrepareStorageChangesBefore(extrinsic_index, changes_ok)
    \/ \E changes_ok \in BOOLEAN : PrepareStorageChangesBeforeFinalizeBlock(changes_ok)
    \/ \E include_proof \in BOOLEAN : EstimateBlockSize(include_proof)
    \/ \E finalize_ok \in BOOLEAN, changes_ok \in BOOLEAN : Build(finalize_ok, changes_ok)
    \/ Discard

BuilderSpec == BuilderInit /\ [][BuilderNext]_vars

---------------------------------------------------------------------------
\* Properties of the block builder

\* The transactions of a list whose individual application succeeds, in the
\* order of the list.
Successful(xts) == SelectSeq(xts, LAMBDA xt : xt.res = "Ok")

\* The queue holds a transaction whose application fails.
SomeFailed == \E i \in DOMAIN extrinsics : extrinsics[i].res # "Ok"

\* A step that applied all transactions: build, or
\* prepare_storage_changes_before_finalize_block.
ApplyAllStep ==
    /\ builder.phase = "ready"
    /\ result'.op \in { "build", "prepare_storage_changes_before_finalize_block" }
    /\ \/ builder'.phase = "consumed"
       \/ builder'.inspections = builder.inspections + 1

\* The execution state an apply-all step leaves: the state delta it returned,
\* or the overlay it left in the execution context when it returned an error.
StateLeft ==
    IF result'.res = "Ok" THEN result'.storage_changes[1] ELSE Top(api'.changes)

\* The write of finalize_block, which build makes after the transactions.
AfterTransactions ==
    IF result'.op = "build" /\ result'.res \in { "Ok", "Panic", "BackendError", "StorageChanges" }
    THEN << RuntimeWrite("finalize") >>
    ELSE << >>

\* C1: after build or prepare_storage_changes_before_finalize_block applied
\* all transactions, the execution state is the state before the call with
\* the writes of exactly the transactions whose application succeeded added
\* in queue order: the writes of every failed transaction (validity failure
\* or execution fault) are rolled back, those of every successful one kept,
\* and no transaction scope is left open.
C1_StateIsSuccessfulTransactions ==
    [][ ApplyAllStep =>
          /\ StateLeft = Top(api.changes) \o Successful(extrinsics) \o AfterTransactions
          /\ Len(api'.changes) = 1 ]_vars

\* C1 witness: build returned a state delta for a queue in which a failed
\* transaction is followed by a successful one.
C1_Witness ==
    /\ result.op = "build"
    /\ result.res = "Ok"
    /\ \E i, j \in DOMAIN extrinsics :
          /\ i < j
          /\ extrinsics[i].res = "Invalid"
          /\ extrinsics[j].res = "Ok"
          /\ \E k \in DOMAIN result.storage_changes[1] :
                result.storage_changes[1][k] = extrinsics[j]
          /\ \A k \in DOMAIN result.storage_changes[1] :
                result.storage_changes[1][k] # extrinsics[i]

\* C2: when a queued transaction fails during build and nothing else does,
\* build succeeds and the transaction list of the block is the queue with
\* every failed transaction omitted, the successful ones in their original
\* relative order.
C2_BuiltBlockOmitsFailed ==
    ( /\ result.op = "build"
      /\ SomeFailed
      /\ result.res \notin { "ApiError", "BackendError", "StorageChanges" } )
    => /\ result.res = "Ok"
       /\ result.block[1].extrinsics = Successful(extrinsics)

---------------------------------------------------------------------------
\* Properties of the registry: notifications and invariants

\* `added` names every member of `ids` exactly once and nothing else.
OncePerId(added, ids) ==
    /\ Len(added) = Cardinality(ids)
    /\ { added[i] : i \in DOMAIN added } = ids

\* C11: the hook at height h deposits exactly one upgrade digest log and
\* exactly one DomainRuntimeUpgraded event for each entry keyed at h, each
\* carrying the entry's runtime_id, and nothing when no entry is keyed at h;
\* register and scheduleUpgrade deposit no log and no event.
C11_OneLogAndOneEventPerActivation ==
    [][ /\ HookStep =>
              /\ OncePerId(digest', drain_prefix(block_number'))
              /\ OncePerId(events', drain_prefix(block_number'))
        /\ ~HookStep =>
              /\ digest' = digest
              /\ events' = events ]_vars

\* C11 witness: the hook of this block activated one upgrade and deposited
\* its log and its event.
C11_Witness ==
    /\ block_number > StartBlock
    /\ Len(digest) = 1
    /\ Len(events) = 1
    /\ digest[1] = events[1]
    /\ digest[1] \in DOMAIN RuntimeRegistry
    /\ RuntimeRegistry[digest[1]].updated_at = block_number
    /\ RuntimeRegistry[digest[1]].runtime_upgrades >= 1

\* `hash` is the hash of the code embedded in `raw_genesis`.
HashOfEmbeddedCode(raw_genesis, hash) ==
    /\ IsSome(get_runtime_code(raw_genesis))
    /\ hash = Hashing_hash(get_runtime_code(raw_genesis)[1])

\* C12: in every reachable state the hash of each RuntimeObject is the hash
\* of the code embedded in the object's current raw genesis, and the hash of
\* each pending ScheduledRuntimeUpgrade is the hash of the code embedded in
\* the entry's own raw genesis.
C12_HashIsOfEmbeddedCode ==
    /\ \A r \in DOMAIN RuntimeRegistry :
          HashOfEmbeddedCode(RuntimeRegistry[r].raw_genesis, RuntimeRegistry[r].hash)
    /\ \A k \in DOMAIN ScheduledRuntimeUpgrades :
          HashOfEmbeddedCode(ScheduledRuntimeUpgrades[k].raw_genesis,
                             ScheduledRuntimeUpgrades[k].hash)

\* C12 witness: an object whose code was replaced by an activated upgrade,
\* with another upgrade of different code pending for it.
C12_Witness ==
    \E k \in DOMAIN ScheduledRuntimeUpgrades :
        /\ k[2] \in DOMAIN RuntimeRegistry
        /\ RuntimeRegistry[k[2]].runtime_upgrades >= 1
        /\ RuntimeRegistry[k[2]].updated_at > RuntimeRegistry[k[2]].created_at
        /\ RuntimeRegistry[k[2]].hash # ScheduledRuntimeUpgrades[k].hash

\* C13: in every reachable state each pending entry (height, runtime_id)
\* refers to a runtime_id that has a RuntimeObject, and the expect in
\* do_upgrade_runtimes has not panicked.
C13_PendingEntryHasObject ==
    /\ \A k \in DOMAIN ScheduledRuntimeUpgrades : k[2] \in DOMAIN RuntimeRegistry
    /\ ~panicked

\* C13 witness: the hook of this block activated an upgrade without
\* panicking while one of the runtime ids the calls are made with has no
\* object.
C13_Witness ==
    /\ block_number > StartBlock
    /\ ~panicked
    /\ \E r \in RuntimeIdInputs : r \notin DOMAIN RuntimeRegistry
    /\ \E r \in DOMAIN RuntimeRegistry :
          /\ RuntimeRegistry[r].runtime_upgrades >= 1
          /\ RuntimeRegistry[r].updated_at = block_number
          /\ events = << r >>

---------------------------------------------------------------------------
\* Properties of the block builder: errors, order and effects

\* A step of build.
BuildStep == builder.phase = "ready" /\ builder'.phase = "consumed"

\* The calls a step made on the execution context.
CallsMade == SubSeq(api'.calls, Len(api.calls) + 1, Len(api'.calls))

\* The number of apply_extrinsic calls among `calls`.
Attempts(calls) == Len(SelectSeq(calls, LAMBDA c : c = "apply_extrinsic"))

\* C14: build never fails because of the outcomes of transactions: it
\* attempts every transaction of the queue once, whatever failed before, and
\* ends with Ok or with the error of finalize_block or of the collection of
\* the state delta.
C14_BuildToleratesFailedTransactions ==
    [][ BuildStep =>
          /\ Attempts(CallsMade) = Len(extrinsics)
          /\ result'.res \in { "Ok", "ApiError", "BackendError",
                              "StorageChanges" } ]_vars

\* The transactions before position `extrinsic_index` (0-based) of the queue.
Before(extrinsic_index) == SubSeq(extrinsics, 1, extrinsic_index)

\* The longest prefix of a list in which every transaction succeeds.
RECURSIVE SuccessfulPrefix(_)
SuccessfulPrefix(xts) ==
    IF xts = << >> \/ Head(xts).res # "Ok" THEN << >>
    ELSE << Head(xts) >> \o SuccessfulPrefix(Tail(xts))

\* C15: prepare_storage_changes_before(index) with index below the
\* transaction count skips a failed transaction among 0..index-1, applies the
\* following ones and returns the state delta of the successful ones.
C15_PrepareSkipsFailed ==
    [][ \A i \in ExtrinsicIndices :
          ( /\ i < Len(extrinsics)
            /\ IsSome(backend)
            /\ result'.op = "prepare_storage_changes_before"
            /\ PrepareStorageChangesBefore(i, TRUE) )
          => /\ result'.res = "Ok"
             /\ result'.storage_changes
                   = Some(Top(api.changes) \o Successful(Before(i))) ]_vars

\* What the code does instead: prepare_storage_changes_before(index) with index
\* below the transaction count applies transactions 0..index-1 in queue
\* order, each in its own scope, up to the first one that fails: that one is
\* rolled back and its error returned at once, the following ones are not
\* attempted and no state delta is returned; when none fails the state
\* delta of all of them is returned.
PrepareStopsAtFirstFailure ==
    [][ \A i \in ExtrinsicIndices :
          ( /\ i < Len(extrinsics)
            /\ IsSome(backend)
            /\ result'.op = "prepare_storage_changes_before"
            /\ PrepareStorageChangesBefore(i, TRUE) )
          => LET applied == SuccessfulPrefix(Before(i))
             IN  IF Len(applied) = i
                 THEN /\ result'.res = "Ok"
                      /\ result'.storage_changes = Some(Top(api.changes) \o applied)
                      /\ Attempts(CallsMade) = i
                 ELSE /\ result'.res = extrinsics[Len(applied) + 1].res
                      /\ result'.storage_changes = None
                      /\ Top(api'.changes) = Top(api.changes) \o applied
                      /\ Len(api'.changes) = 1
                      /\ Attempts(CallsMade) = Len(applied) + 1 ]_vars

\* Every transaction of the queue succeeds.
AllSucceed == \A k \in DOMAIN extrinsics : extrinsics[k].res = "Ok"

\* C16: with all transactions succeeding, prepare_storage_changes_before(index)
\* fails with the out-of-range error when index is greater than the number
\* of queued transactions and does not when index is less than or equal to
\* that number.
C16_OutOfRangeAboveCount ==
    [][ \A i \in ExtrinsicIndices :
          ( /\ AllSucceed
            /\ result'.op = "prepare_storage_changes_before"
            /\ \E changes_ok \in BOOLEAN : PrepareStorageChangesBefore(i, changes_ok) )
          => (result'.res = "InvalidExtrinsicIndex" <=> i > Len(extrinsics)) ]_vars

\* C16 as the code has it: with all transactions succeeding,
\* prepare_storage_changes_before(index) fails with the out-of-range error
\* when index is greater than or equal to the number of queued transactions
\* (the position after the last transaction is out of range too), after
\* applying every transaction, and does not fail with it when index is less
\* than that number.
C16_OutOfRangeFromCount ==
    [][ \A i \in ExtrinsicIndices :
          ( /\ AllSucceed
            /\ result'.op = "prepare_storage_changes_before"
            /\ \E changes_ok \in BOOLEAN : PrepareStorageChangesBefore(i, changes_ok) )
          => /\ result'.res = "InvalidExtrinsicIndex" <=> i >= Len(extrinsics)
             /\ i >= Len(extrinsics) =>
                   /\ result'.storage_changes = None
                   /\ Top(api'.changes) = Top(api.changes) \o extrinsics
             /\ i < Len(extrinsics) =>
                   result'.res \in { "Ok", "BackendError", "StorageChanges" } ]_vars

\* C16 witness: prepare_storage_changes_before returned the out-of-range
\* error on a queue of transactions that all succeed, having applied them.
C16_Witness ==
    /\ result.op = "prepare_storage_changes_before"
    /\ result.res = "InvalidExtrinsicIndex"
    /\ Len(extrinsics) >= 2
    /\ AllSucceed
    /\ \A k \in DOMAIN extrinsics :
          \E w \in DOMAIN Top(api.changes) : Top(api.changes)[w] = extrinsics[k]

\* The inherents the runtime synthesizes from maybe_inherent_data.
Synthesized(maybe_inherent_data) ==
    IF IsSome(maybe_inherent_data) THEN maybe_inherent_data[1].exts ELSE << >>

\* C17: after BlockBuilder::new with inherent data and a supplied list, the
\* queue is the synthesized inherents (each once) followed by the supplied
\* transactions in their supplied order; and a build on the fresh builder
\* applies the queue in queue order.
C17_InherentsFirstThenSupplied ==
    [][ /\ builder.phase = "none" =>
              \A record_proof_ \in BOOLEAN, supplied \in SuppliedExtrinsics,
                 maybe_inherent_data \in InherentDatas, init_ok \in BOOLEAN,
                 backend_ok \in BOOLEAN, debug \in BOOLEAN :
                 ( /\ result'.res = "Ok"
                   /\ init_ok
                   /\ backend_ok = IsSome(backend')
                   /\ debug = builder'.debug_assertions
                   /\ record_proof_ = IsSome(api'.recorder)
                   /\ New(record_proof_, supplied, maybe_inherent_data, init_ok,
                          backend_ok, debug) )
                 => LET n == Len(Synthesized(maybe_inherent_data))
                    IN  /\ Len(extrinsics') = n + Len(supplied)
                        /\ SubSeq(extrinsics', n + 1, n + Len(supplied)) = supplied
                        /\ { extrinsics'[k] : k \in 1 .. n }
                              = { Synthesized(maybe_inherent_data)[k] : k \in 1 .. n }
        /\ (BuildStep /\ builder.inspections = 0 /\ result'.res = "Ok") =>
              Noted(result'.storage_changes[1]) = Successful(extrinsics) ]_vars

\* C17 witness: a builder made with inherent data and two supplied
\* transactions holds the two inherents, then the supplied b, then the
\* supplied a, and built its block.
C17_Witness ==
    /\ result.op = "build"
    /\ result.res = "Ok"
    /\ builder.inspections = 0
    /\ Len(extrinsics) = 4
    /\ { extrinsics[1].id, extrinsics[2].id } = { "i1", "i2" }
    /\ extrinsics[3].id = "b"
    /\ extrinsics[4].id = "a"
    /\ Noted(result.storage_changes[1]) = extrinsics

\* The writes of a layer made by the runtime while synthesizing inherents.
InherentWrites(layer) == { k \in DOMAIN layer : layer[k] = RuntimeWrite("inherent_data") }

\* C18: inherent creation never changes the execution state: called on any
\* execution context the builder reaches, with data the runtime accepts or
\* rejects, create_inherents leaves the overlay as it was, with no scope
\* open; and no overlay and no returned state delta holds a write made
\* while synthesizing inherents.
C18_CreateInherentsLeavesNoWrite ==
    /\ \A inherent_data \in InherentDatas \ { None } :
          LET created == create_inherents(api, inherent_data[1])
          IN  /\ created.api.changes = api.changes
              /\ created.res = "Ok" <=> inherent_data[1].ok
    /\ \A k \in DOMAIN api.changes : InherentWrites(api.changes[k]) = {}
    /\ IsSome(result.storage_changes) => InherentWrites(result.storage_changes[1]) = {}

\* C18 witness: a builder was made with inherent data: the runtime was asked
\* for the inherents, they are in the queue, and the overlay holds the write
\* of initialize_block only.
C18_Witness ==
    /\ result.op = "new"
    /\ builder.phase = "ready"
    /\ \E k \in DOMAIN api.calls : api.calls[k] = "inherent_extrinsics"
    /\ \E k \in DOMAIN extrinsics : extrinsics[k] = Inherent("i1")
    /\ api.changes = << << RuntimeWrite("init") >> >>

\* The calls into the runtime among `calls` (the others are calls on the
\* execution context itself).
RuntimeCalls(calls) ==
    SelectSeq(calls, LAMBDA c : c \in { "initialize_block", "inherent_extrinsics",
                                        "apply_extrinsic", "finalize_block" })

\* C19: the proof build returns is present exactly when the builder was made
\* with proof recording enabled; and then recording was turned on before
\* initialize_block and before any inherent or transaction ran, so that the
\* recorder, and the proof, cover every runtime call made on the context.
C19_ProofIffRecording ==
    [][ /\ builder.phase = "none" =>
              \A record_proof_ \in BOOLEAN, supplied \in SuppliedExtrinsics,
                 maybe_inherent_data \in InherentDatas :
                 ( /\ result'.res = "Ok"
                   /\ New(record_proof_, supplied, maybe_inherent_data, TRUE,
                          IsSome(backend'), builder'.debug_assertions) )
                 => /\ IsSome(api'.recorder) <=> record_proof_
                    /\ record_proof_ =>
                          /\ api'.calls[1] = "record_proof"
                          /\ api'.recorder[1] = RuntimeCalls(api'.calls)
        /\ builder.phase = "ready" =>
              IsSome(api'.recorder) <=> IsSome(api.recorder)
        /\ (BuildStep /\ result'.res = "Ok") =>
              /\ IsSome(result'.proof)
              /\ IsSome(result'.proof[1]) <=> IsSome(api.recorder)
              /\ IsSome(api.recorder) =>
                    result'.proof[1][1]
                       = RuntimeCalls(SubSeq(api'.calls, 1, Len(api'.calls) - 1)) ]_vars

\* C19 witness: a builder made with proof recording and inherent data built
\* a block and returned a proof that starts at initialize_block.
C19_Witness ==
    /\ result.op = "build"
    /\ result.res = "Ok"
    /\ IsSome(result.proof[1])
    /\ Len(result.proof[1][1]) >= 4
    /\ result.proof[1][1][1] = "initialize_block"
    /\ result.proof[1][1][2] = "inherent_extrinsics"
    /\ result.proof[1][1][3] = "apply_extrinsic"
    /\ result.proof[1][1][Len(result.proof[1][1])] = "finalize_block"

\* C19 second witness: a builder made without proof recording built a block
\* and returned no proof.
C19_WitnessNoProof ==
    /\ result.op = "build"
    /\ result.res = "Ok"
    /\ result.proof = Some(None)
    /\ Len(extrinsics) >= 1

\* C20: no operation of the BlockBuilder writes to the backend: from before
\* the builder is made, through every new, prepare_storage_changes_before,
\* prepare_storage_changes_before_finalize_block, estimate_block_size and
\* build, and through its being discarded, the state the backend holds at
\* the parent hash is the one it held before (or the backend no longer
\* holds it, for the whole life of the builder).
C20_BackendNeverWritten ==
    [][ /\ backend' \in { Some(ParentState), None }
        /\ builder.phase # "none" => backend' = backend ]_vars

\* C20 witness: after an inspection and a build that returned a state delta
\* with writes, the backend holds the parent state.
C20_Witness ==
    /\ result.op = "build"
    /\ result.res = "Ok"
    /\ builder.inspections = 1
    /\ Len(result.storage_changes[1]) >= 2
    /\ backend = Some(ParentState)

\* C20 second witness: a builder was discarded after an inspection that
\* applied transactions, and the backend holds the parent state.
C20_WitnessDiscarded ==
    /\ builder.phase = "discarded"
    /\ builder.inspections = 1
    /\ Attempts(api.calls) >= 2
    /\ backend = Some(ParentState)

---------------------------------------------------------------------------
\* pallet-runtime-configs (crates/pallet-runtime-configs/src/lib.rs)

\* Largest confirmation_depth_k a genesis config sets.
MaxConfirmationDepthK == 2

\* The origins a call is dispatched with.
Origins == { "Root", "Signed", "None" }

\* frame_system::ensure_root
ensure_root(origin) == IF origin = "Root" THEN "Ok" ELSE "BadOrigin"

\* The outcome of a call: its DispatchResult and the flags it leaves
\* (ConfirmationDepthK is written by no call).
ConfigOutcome(res, enable_domains, enable_dynamic_cost_of_storage, enable_balance_transfers, enable_non_root_calls) ==
    [ res |-> res,
      EnableDomains |-> enable_domains,
      EnableDynamicCostOfStorage |-> enable_dynamic_cost_of_storage,
      EnableBalanceTransfers |-> enable_balance_transfers,
      EnableNonRootCalls |-> enable_non_root_calls ]

\* An early error return of a call: nothing was written.
BadOrigin ==
    ConfigOutcome("BadOrigin", EnableDomains, EnableDynamicCostOfStorage,
                  EnableBalanceTransfers, EnableNonRootCalls)

set_enable_domains(origin, enable_domains) ==
    IF ensure_root(origin) # "Ok" THEN BadOrigin
    ELSE ConfigOutcome("Ok", enable_domains, EnableDynamicCostOfStorage,
                       EnableBalanceTransfers, EnableNonRootCalls)

\* The call puts its value into EnableBalanceTransfers (line 138).
set_enable_dynamic_cost_of_storage(origin, enable_dynamic_cost_of_storage) ==
    IF ensure_root(origin) # "Ok" THEN BadOrigin
    ELSE ConfigOutcome("Ok", EnableDomains, EnableDynamicCostOfStorage,
                       enable_dynamic_cost_of_storage, EnableNonRootCalls)

set_enable_balance_transfers(origin, enable_balance_transfers) ==
    IF ensure_root(origin) # "Ok" THEN BadOrigin
    ELSE ConfigOutcome("Ok", EnableDomains, EnableDynamicCostOfStorage,
                       enable_balance_transfers, EnableNonRootCalls)

set_enable_non_root_calls(origin, enable_non_root_calls) ==
    IF ensure_root(origin) # "Ok" THEN BadOrigin
    ELSE ConfigOutcome("Ok", EnableDomains, EnableDynamicCostOfStorage,
                       EnableBalanceTransfers, enable_non_root_calls)

\* GenesisConfig::build: the flags and a non-zero confirmation depth are
\* stored as given; no call was dispatched yet.
ConfigsInit ==
    /\ RegistryGenesis
    /\ NoBuilder
    /\ NoRawGenesis
    /\ EnableDomains \in BOOLEAN
    /\ EnableDynamicCostOfStorage \in BOOLEAN
    /\ EnableBalanceTransfers \in BOOLEAN
    /\ EnableNonRootCalls \in BOOLEAN
    /\ ConfirmationDepthK \in 1 .. MaxConfirmationDepthK
    /\ dispatch_result = [ call |-> "none", res |-> "Ok" ]

\* A dispatched call: the storage its outcome leaves and its DispatchResult.
Dispatched(call, o) ==
    /\ EnableDomains' = o.EnableDomains
    /\ EnableDynamicCostOfStorage' = o.EnableDynamicCostOfStorage
    /\ EnableBalanceTransfers' = o.EnableBalanceTransfers
    /\ EnableNonRootCalls' = o.EnableNonRootCalls
    /\ dispatch_result' = [ call |-> call, res |-> o.res ]
    /\ UNCHANGED << ConfirmationDepthK, registryVars, builderVars,
                    complete_raw_genesis >>

SetEnableDomains(origin, enable_domains) ==
    Dispatched("set_enable_domains", set_enable_domains(origin, enable_domains))

SetEnableDynamicCostOfStorage(origin, enable_dynamic_cost_of_storage) ==
    Dispatched("set_enable_dynamic_cost_of_storage",
               set_enable_dynamic_cost_of_storage(origin, enable_dynamic_cost_of_storage))

SetEnableBalanceTransfers(origin, enable_balance_transfers) ==
    Dispatched("set_enable_balance_transfers",
               set_enable_balance_transfers(origin, enable_balance_transfers))

SetEnableNonRootCalls(origin, enable_non_root_calls) ==
    Dispatched("set_enable_non_root_calls",
               set_enable_non_root_calls(origin, enable_non_root_calls))

ConfigsNext ==
    \/ \E origin \in Origins, v \in BOOLEAN : SetEnableDomains(origin, v)
    \/ \E origin \in Origins, v \in BOOLEAN : SetEnableDynamicCostOfStorage(origin, v)
    \/ \E origin \in Origins, v \in BOOLEAN : SetEnableBalanceTransfers(origin, v)
    \/ \E origin \in Origins, v \in BOOLEAN : SetEnableNonRootCalls(origin, v)

ConfigsSpec == ConfigsInit /\ [][ConfigsNext]_vars

---------------------------------------------------------------------------
\* Properties of pallet-runtime-configs

\* C24: set_enable_dynamic_cost_of_storage called with a root origin and
\* value v sets EnableDynamicCostOfStorage to v and leaves EnableDomains,
\* EnableBalanceTransfers, EnableNonRootCalls and ConfirmationDepthK
\* unchanged.
C24_SetsDynamicCostOfStorageOnly ==
    [][ \A v \in BOOLEAN :
          ( /\ dispatch_result'.call = "set_enable_dynamic_cost_of_storage"
            /\ SetEnableDynamicCostOfStorage("Root", v) )
          => /\ EnableDynamicCostOfStorage' = v
             /\ UNCHANGED << EnableDomains, EnableBalanceTransfers,
                             EnableNonRootCalls, ConfirmationDepthK >> ]_vars

---------------------------------------------------------------------------
\* Genesis materialization (RuntimeObject::into_complete_raw_genesis)

\* Largest DomainId a domain is instantiated with.
MaxDomainId == 1

\* Largest EVMChainId a domain is instantiated with.
MaxEVMChainId == 1

\* Number of into_complete_raw_genesis calls whose results are held.
MaxMaterializations == 2

DomainIds == 0 .. MaxDomainId

EVMChainIds == 0 .. MaxEVMChainId

\* enum DomainRuntimeInfo
DomainRuntimeInfos == { [ kind |-> "EVM", chain_id |-> c ] : c \in EVMChainIds }

\* RawGenesis::set_domain_id
set_domain_id(raw_genesis, domain_id) ==
    [ raw_genesis EXCEPT !.domain_id = Some(domain_id) ]

\* RawGenesis::set_evm_chain_id
set_evm_chain_id(raw_genesis, chain_id) ==
    [ raw_genesis EXCEPT !.evm_chain_id = Some(chain_id) ]

\* into_complete_raw_genesis that sets the domain id only.
into_complete_raw_genesis_NoChainId(self, domain_id, domain_runtime_info) ==
    set_domain_id(self.raw_genesis, domain_id)

\* self is taken by value: the raw genesis moved out of it is changed, no
\* storage is.
into_complete_raw_genesis(self, domain_id, domain_runtime_info) ==
    LET raw_genesis == set_domain_id(self.raw_genesis, domain_id)
    IN  IF domain_runtime_info.kind = "EVM"
        THEN set_evm_chain_id(raw_genesis, domain_runtime_info.chain_id)
        ELSE raw_genesis

\* A caller reads RuntimeObject runtime_id out of the registry and
\* materializes its genesis image for a domain.
IntoCompleteRawGenesis(runtime_id, domain_id, domain_runtime_info) ==
    /\ runtime_id \in DOMAIN RuntimeRegistry
    /\ Len(complete_raw_genesis) < MaxMaterializations
    /\ complete_raw_genesis' =
          Append(complete_raw_genesis,
                 [ runtime_id |-> runtime_id,
                   domain_id |-> domain_id,
                   domain_runtime_info |-> domain_runtime_info,
                   raw_genesis |-> into_complete_raw_genesis(RuntimeRegistry[runtime_id],
                                                             domain_id, domain_runtime_info) ])
    /\ UNCHANGED << registryVars, builderVars, configVars >>

GenesisInit ==
    /\ RegistryGenesis
    /\ NoBuilder
    /\ NoRawGenesis
    /\ DefaultConfigs

GenesisNext ==
    \/ \E n \in RuntimeNames, t \in RuntimeTypes, b \in RegisteredGenesisStorages :
          RegisterDomainRuntime(n, t, b)
    \/ \E n \in RuntimeNames, t \in RuntimeTypes, b \in RegisteredGenesisStorages :
          RegisterRuntimeAtGenesis(n, t, RuntimeVersion("test", 2), b)
    \/ /\ Len(complete_raw_genesis) < MaxMaterializations
       /\ \E r \in RuntimeIdInputs, d \in DomainIds, i \in DomainRuntimeInfos :
             IntoCompleteRawGenesis(r, d, i)

GenesisSpec == GenesisInit /\ [][GenesisNext]_vars

\* C25: materializing a genesis image from a RuntimeObject changes no
\* registry storage, in particular the stored object's genesis image keeps no
\* identity; the returned image is the stored image carrying exactly the
\* supplied domain id and chain id, so two materializations of one stored
\* object with different identities each carry their own.
C25_MaterializationInjectsIdentity ==
    /\ [][ complete_raw_genesis' # complete_raw_genesis
             => UNCHANGED << registryStorage, digest, events >> ]_vars
    /\ [] \A r \in DOMAIN RuntimeRegistry :
             /\ RuntimeRegistry[r].raw_genesis.domain_id = None
             /\ RuntimeRegistry[r].raw_genesis.evm_chain_id = None
    /\ [] \A k \in DOMAIN complete_raw_genesis :
             LET m == complete_raw_genesis[k]
             IN  /\ m.raw_genesis.domain_id = Some(m.domain_id)
                 /\ m.raw_genesis.evm_chain_id = Some(m.domain_runtime_info.chain_id)
                 /\ m.raw_genesis.runtime_code
                       = RuntimeRegistry[m.runtime_id].raw_genesis.runtime_code

\* C25 witness: one stored object was materialized twice, with different
\* domain ids and different chain ids.
C25_Witness ==
    /\ Len(complete_raw_genesis) = 2
    /\ complete_raw_genesis[1].runtime_id = complete_raw_genesis[2].runtime_id
    /\ complete_raw_genesis[1].domain_id # complete_raw_genesis[2].domain_id
    /\ complete_raw_genesis[1].domain_runtime_info
          # complete_raw_genesis[2].domain_runtime_info
    /\ complete_raw_genesis[1].raw_genesis # complete_raw_genesis[2].raw_genesis
    /\ complete_raw_genesis[1].domain_id
          # complete_raw_genesis[1].domain_runtime_info.chain_id

---------------------------------------------------------------------------
\* Properties of the registry: effects and errors of the calls

\* C22: a successful register returns the id NextRuntimeId held before the
\* call and stores under it a RuntimeObject with the given name and kind, the
\* version read from the code, no applied upgrade and created_at =
\* updated_at = the current height; every RuntimeObject and every pending
\* upgrade stored before is unchanged.
C22_RegisterStoresFreshObject ==
    [][ \A n \in RuntimeNames, t \in RuntimeTypes, b \in RegisteredGenesisStorages :
          LET o == do_register_runtime(n, t, b, block_number)
              stored == RuntimeRegistry'[NextRuntimeId]
          IN  ( /\ o.res = "Ok"
                /\ UNCHANGED block_number
                /\ RegisterDomainRuntime(n, t, b) )
              => /\ o.value = Some(NextRuntimeId)
                 /\ DOMAIN RuntimeRegistry' = DOMAIN RuntimeRegistry \cup { NextRuntimeId }
                 /\ stored.runtime_name = n
                 /\ stored.runtime_type = t
                 /\ Some(stored.version) = CandidateVersion(b)
                 /\ stored.runtime_upgrades = 0
                 /\ stored.created_at = block_number
                 /\ stored.updated_at = block_number
                 /\ \A r \in DOMAIN RuntimeRegistry :
                       RuntimeRegistry'[r] = RuntimeRegistry[r]
                 /\ ScheduledRuntimeUpgrades' = ScheduledRuntimeUpgrades ]_vars

\* C22 witness: a runtime was registered in this block next to an object
\* registered in an earlier block, while an upgrade is pending.
C22_Witness ==
    /\ ScheduledRuntimeUpgrades # << >>
    /\ \E r \in DOMAIN RuntimeRegistry, earlier \in DOMAIN RuntimeRegistry :
          /\ earlier < r
          /\ r < NextRuntimeId
          /\ RuntimeRegistry[r].created_at = block_number
          /\ RuntimeRegistry[r].updated_at = block_number
          /\ RuntimeRegistry[earlier].created_at < block_number

\* The entry scheduleUpgrade stores for a candidate.
CandidateEntry(raw_genesis_storage) ==
    [ raw_genesis |-> Decode(raw_genesis_storage)[1],
      version |-> CandidateVersion(raw_genesis_storage)[1],
      hash |-> Hashing_hash(get_runtime_code(Decode(raw_genesis_storage)[1])[1]) ]

\* The runtime has a pending upgrade.
HasPending(r) == \E k \in DOMAIN ScheduledRuntimeUpgrades : k[2] = r

\* C23: a successful scheduleUpgrade for a runtime that has a pending
\* upgrade replaces the entry keyed at the same (height, runtime) and keeps
\* every entry keyed at another height, so both stay pending; no
\* scheduleUpgrade fails with RuntimeUpgradeAlreadyScheduled, and a pending
\* upgrade never makes a call fail.
C23_OneEntryPerHeightAndRuntime ==
    /\ [] \A r \in RuntimeIdInputs, b \in RawGenesisStorages :
             LET o == do_schedule_runtime_upgrade(r, b, block_number)
             IN  /\ o.res # "RuntimeUpgradeAlreadyScheduled"
                 /\ ( /\ r \in DOMAIN RuntimeRegistry
                      /\ HasPending(r)
                      /\ IsSome(CandidateVersion(b))
                      /\ can_upgrade_code(RuntimeRegistry[r].version,
                                          get_runtime_code(Decode(b)[1])[1]).res = "Ok"
                      /\ DomainRuntimeUpgradeDelay <= MaxBlockNumber - block_number )
                    => o.res = "Ok"
    /\ [][ \A r \in RuntimeIdInputs, b \in RawGenesisStorages :
             LET o == do_schedule_runtime_upgrade(r, b, block_number)
                 key == << block_number + DomainRuntimeUpgradeDelay, r >>
             IN  ( /\ o.res = "Ok"
                   /\ UNCHANGED block_number
                   /\ UpgradeDomainRuntime(r, b) )
                 => /\ ScheduledRuntimeUpgrades'[key] = CandidateEntry(b)
                    /\ key \in DOMAIN ScheduledRuntimeUpgrades
                          => DOMAIN ScheduledRuntimeUpgrades' = DOMAIN ScheduledRuntimeUpgrades
                    /\ \A k \in DOMAIN ScheduledRuntimeUpgrades \ { key } :
                          /\ k \in DOMAIN ScheduledRuntimeUpgrades'
                          /\ ScheduledRuntimeUpgrades'[k] = ScheduledRuntimeUpgrades[k] ]_vars

\* C23 witness: two upgrades of one runtime are pending at two heights.
C23_Witness ==
    \E k1 \in DOMAIN ScheduledRuntimeUpgrades, k2 \in DOMAIN ScheduledRuntimeUpgrades :
        /\ k1[2] = k2[2]
        /\ k1[1] < k2[1]
        /\ ScheduledRuntimeUpgrades[k1].version # ScheduledRuntimeUpgrades[k2].version

\* No successful scheduleUpgrade replaces a pending entry (refuted: the
\* replacement of C23 happens).
C23_NeverReplaces ==
    [][ \A k \in DOMAIN ScheduledRuntimeUpgrades :
           k \in DOMAIN ScheduledRuntimeUpgrades'
              => ScheduledRuntimeUpgrades'[k] = ScheduledRuntimeUpgrades[k] ]_vars

\* C27: the hook at height h removes all and only the entries keyed at h;
\* entries keyed at other heights, RuntimeObjects with no entry at h and
\* NextRuntimeId are unchanged, and with no entry at h nothing changes.
C27_HookDrainsExactlyItsHeight ==
    [][ HookStep =>
          LET ids == drain_prefix(block_number')
          IN  /\ DOMAIN ScheduledRuntimeUpgrades'
                    = { k \in DOMAIN ScheduledRuntimeUpgrades : k[1] # block_number' }
              /\ \A k \in DOMAIN ScheduledRuntimeUpgrades' :
                    ScheduledRuntimeUpgrades'[k] = ScheduledRuntimeUpgrades[k]
              /\ DOMAIN RuntimeRegistry' = DOMAIN RuntimeRegistry
              /\ \A r \in DOMAIN RuntimeRegistry \ ids :
                    RuntimeRegistry'[r] = RuntimeRegistry[r]
              /\ NextRuntimeId' = NextRuntimeId
              /\ ids = {} => /\ UNCHANGED << registryStorage, DomainRuntimeUpgradeDelay >>
                              /\ digest' = << >>
                              /\ events' = << >> ]_vars

\* C27 witness: the hook of this block activated an upgrade of one runtime
\* and left an entry keyed at a later height and another object alone.
C27_Witness ==
    /\ block_number > StartBlock
    /\ Len(events) = 1
    /\ \E k \in DOMAIN ScheduledRuntimeUpgrades : k[1] > block_number
    /\ \E r \in DOMAIN RuntimeRegistry :
          /\ RuntimeRegistry[r].updated_at = block_number
          /\ RuntimeRegistry[r].runtime_upgrades = 1

\* C27 witness of the empty case: the hook ran with nothing keyed at its
\* height while an upgrade is pending for a later height.
C27_WitnessNothingDue ==
    /\ block_number > StartBlock
    /\ events = << >>
    /\ ScheduledRuntimeUpgrades # << >>
    /\ \A r \in DOMAIN RuntimeRegistry : RuntimeRegistry[r].runtime_upgrades = 0

\* The candidates runtime r's object accepts as an upgrade.
CompatibleCandidates(r) ==
    { b \in SameNameCandidates(r) :
        CandidateVersion(b)[1].spec_version > RuntimeRegistry[r].version.spec_version }

\* C28: for an existing runtime and a compatible candidate, when
\* current height + upgrade delay overflows the block number, scheduleUpgrade
\* fails with MaxScheduledBlockNumber and stores nothing at any height.
C28_OverflowRejected ==
    \A r \in DOMAIN RuntimeRegistry :
        \A b \in CompatibleCandidates(r) :
            DomainRuntimeUpgradeDelay > MaxBlockNumber - block_number
            => LET o == do_schedule_runtime_upgrade(r, b, block_number)
               IN  /\ o.res = "MaxScheduledBlockNumber"
                   /\ o.value = None
                   /\ o.registry = RuntimeRegistry
                   /\ o.scheduled = ScheduledRuntimeUpgrades
                   /\ o.next_id = NextRuntimeId
                   /\ ~ ENABLED ( /\ UpgradeDomainRuntime(r, b)
                                  /\ registryStorage' # registryStorage )

\* C28 witness: at the last block number with a delay of one block, a
\* registered runtime has a compatible candidate, which is rejected.
C28_Witness ==
    /\ block_number = MaxBlockNumber
    /\ DomainRuntimeUpgradeDelay = 1
    /\ \E r \in DOMAIN RuntimeRegistry :
          /\ CompatibleCandidates(r) # {}
          /\ \A b \in CompatibleCandidates(r) :
                do_schedule_runtime_upgrade(r, b, block_number).res
                   = "MaxScheduledBlockNumber"

\* The first check of scheduleUpgrade that fails, in the order runtime
\* object, decoding, code, version extraction, spec name, spec version,
\* activation height.
FirstFailingCheck(r, b) ==
    IF r \notin DOMAIN RuntimeRegistry THEN "MissingRuntimeObject"
    ELSE IF ~b.well_formed THEN "FailedToDecodeRawGenesis"
    ELSE IF b.payload.runtime_code = None THEN "RuntimeCodeNotFoundInRawGenesis"
    ELSE IF ~b.payload.runtime_code[1].readable THEN "FailedToExtractRuntimeVersion"
    ELSE IF b.payload.runtime_code[1].version.spec_name
               # RuntimeRegistry[r].version.spec_name THEN "InvalidSpecName"
    ELSE IF b.payload.runtime_code[1].version.spec_version
               <= RuntimeRegistry[r].version.spec_version THEN "SpecVersionNeedsToIncrease"
    ELSE IF DomainRuntimeUpgradeDelay > MaxBlockNumber - block_number
         THEN "MaxScheduledBlockNumber"
    ELSE "Ok"

\* C29: scheduleUpgrade reports the first failing check in the fixed order
\* MissingRuntimeObject, FailedToDecodeRawGenesis,
\* RuntimeCodeNotFoundInRawGenesis, FailedToExtractRuntimeVersion,
\* InvalidSpecName, SpecVersionNeedsToIncrease, MaxScheduledBlockNumber: an
\* unknown runtime id fails with MissingRuntimeObject whatever the blob, and
\* a candidate of another spec name with a non-increasing version fails with
\* InvalidSpecName.
C29_FirstFailingCheckReported ==
    \A r \in RuntimeIdInputs, b \in RawGenesisStorages :
        do_schedule_runtime_upgrade(r, b, block_number).res = FirstFailingCheck(r, b)

\* C29 witness: with one known and one unknown runtime id at the last block
\* number, the candidates draw every one of the seven errors, and a
\* candidate fails two checks at once.
C29_Witness ==
    /\ { FirstFailingCheck(r, b) : r \in RuntimeIdInputs, b \in RawGenesisStorages }
          = { "MissingRuntimeObject", "FailedToDecodeRawGenesis",
              "RuntimeCodeNotFoundInRawGenesis", "FailedToExtractRuntimeVersion",
              "InvalidSpecName", "SpecVersionNeedsToIncrease",
              "MaxScheduledBlockNumber" }
    /\ \E r \in DOMAIN RuntimeRegistry :
          \E b \in OtherNameCandidates(r) :
             CandidateVersion(b)[1].spec_version <= RuntimeRegistry[r].version.spec_version
    /\ \E r \in RuntimeIdInputs : r \notin DOMAIN RuntimeRegistry

---------------------------------------------------------------------------
\* Properties of the block builder: the extrinsics root and the inherents

\* C26: on build(), the extrinsics root of the header finalize_block returns
\* is the ordered root of the full queue the builder holds, whatever
\* transactions succeeded or failed: the debug assertion of build never
\* fails, and a returned block's header commits to the block's transactions.
\* Stated for a build made straight after BlockBuilder::new.
C26_RootCommitsToFullQueue ==
    [][ (BuildStep /\ builder.inspections = 0) =>
          /\ result'.res # "Panic"
          /\ result'.res = "Ok" =>
                result'.block[1].header.extrinsics_root
                   = ordered_trie_root(extrinsics) ]_vars

\* When every queued transaction succeeds, a build made straight after
\* BlockBuilder::new returns a header whose root is the root of the full
\* queue, and the assertion holds.
RootCommitsToSuccessfulQueue ==
    [][ (BuildStep /\ builder.inspections = 0 /\ ~SomeFailed) =>
          /\ result'.res # "Panic"
          /\ result'.res = "Ok" =>
                result'.block[1].header.extrinsics_root
                   = ordered_trie_root(extrinsics) ]_vars

\* C30: when the runtime synthesizes two or more inherents, BlockBuilder::new
\* leaves them at the front of the queue in the order in which the runtime
\* returned them.
C30_InherentsKeepReturnedOrder ==
    [][ builder.phase = "none" =>
          \A record_proof_ \in BOOLEAN, supplied \in SuppliedExtrinsics,
             maybe_inherent_data \in InherentDatas, init_ok \in BOOLEAN,
             backend_ok \in BOOLEAN, debug \in BOOLEAN :
             ( /\ result'.res = "Ok"
               /\ init_ok
               /\ backend_ok = IsSome(backend')
               /\ debug = builder'.debug_assertions
               /\ record_proof_ = IsSome(api'.recorder)
               /\ Len(Synthesized(maybe_inherent_data)) >= 2
               /\ New(record_proof_, supplied, maybe_inherent_data, init_ok,
                      backend_ok, debug) )
             => SubSeq(extrinsics', 1, Len(Synthesized(maybe_inherent_data)))
                   = Synthesized(maybe_inherent_data) ]_vars

\* What BlockBuilder::new does with the inherents: the one the runtime
\* returned last is at the front of the queue, the one it returned first is
\* next to the supplied transactions.
InherentsInReverseOrder ==
    [][ builder.phase = "none" =>
          \A record_proof_ \in BOOLEAN, supplied \in SuppliedExtrinsics,
             maybe_inherent_data \in InherentDatas, init_ok \in BOOLEAN,
             backend_ok \in BOOLEAN, debug \in BOOLEAN :
             ( /\ result'.res = "Ok"
               /\ init_ok
               /\ backend_ok = IsSome(backend')
               /\ debug = builder'.debug_assertions
               /\ record_proof_ = IsSome(api'.recorder)
               /\ New(record_proof_, supplied, maybe_inherent_data, init_ok,
                      backend_ok, debug) )
             => LET exts == Synthesized(maybe_inherent_data)
                IN  \A k \in 1 .. Len(exts) :
                       extrinsics'[k] = exts[Len(exts) + 1 - k] ]_vars

---------------------------------------------------------------------------
\* Properties of the block builder: repeated application, failed inspections
\* and transaction scopes

\* C31: over the lifetime of one BlockBuilder each queued transaction is
\* applied at most once.  Every operation that applies transactions starts
\* at the head of the queue, so a step that applies any transaction after an
\* earlier step applied one applies the head of the queue a second time.
C31_AppliedAtMostOnce ==
    [][ Attempts(CallsMade) > 0 => Attempts(api.calls) = 0 ]_vars

\* A build made straight after BlockBuilder::new attempts every queued
\* transaction exactly once.
FreshBuildAppliesOnce ==
    [][ (BuildStep /\ builder.inspections = 0) =>
          /\ Attempts(api.calls) = 0
          /\ Attempts(api'.calls) = Len(extrinsics) ]_vars

\* A step of prepare_storage_changes_before that returned the out-of-range
\* error.
OutOfRangeStep ==
    /\ result'.op = "prepare_storage_changes_before"
    /\ result'.res = "InvalidExtrinsicIndex"
    /\ builder'.inspections = builder.inspections + 1

\* C32 (as claimed): when prepare_storage_changes_before(index) returns the
\* out-of-range error, the execution state is the same as before the call:
\* the failed call applied no queued transaction.
C32_OutOfRangeAppliesNothing ==
    [][ OutOfRangeStep =>
          /\ Attempts(CallsMade) = 0
          /\ api'.changes = api.changes ]_vars

\* C32 (amended): when prepare_storage_changes_before(index) returns the
\* out-of-range error, the failed call has applied and committed every
\* queued transaction, in queue order, left no scope open and collected no
\* state delta; the execution state is the same as before the call only for
\* an empty queue.
C32_OutOfRangeAppliesWholeQueue ==
    [][ OutOfRangeStep =>
          /\ Attempts(CallsMade) = Len(extrinsics)
          /\ \A k \in DOMAIN extrinsics : extrinsics[k].res = "Ok"
          /\ Len(api'.changes) = 1
          /\ Top(api'.changes) = Top(api.changes) \o extrinsics
          /\ result'.storage_changes = None
          /\ (api'.changes = api.changes) <=> (extrinsics = << >>) ]_vars

\* C32 witness: an out-of-range prepare call on a builder holding inherents
\* and a supplied transaction has applied the whole queue.
C32_Witness ==
    /\ result.op = "prepare_storage_changes_before"
    /\ result.res = "InvalidExtrinsicIndex"
    /\ Len(extrinsics) = 3
    /\ Attempts(api.calls) = 3
    /\ Noted(Top(api.changes)) = extrinsics

\* The calls of a step are properly bracketed for the queue `xts`: every
\* scope holds exactly one runtime call and is closed right after it; the
\* scope of the next queued transaction is committed if the transaction
\* succeeds and rolled back otherwise; the scope of inherent creation is
\* rolled back; every other call is made outside any scope.
RECURSIVE Bracketed(_, _)
Bracketed(calls, xts) ==
    IF calls = << >> THEN TRUE
    ELSE IF Head(calls) = "start"
    THEN /\ Len(calls) >= 3
         /\ \/ /\ calls[2] = "apply_extrinsic"
               /\ xts # << >>
               /\ calls[3] = IF Head(xts).res = "Ok" THEN "commit" ELSE "rollback"
               /\ Bracketed(SubSeq(calls, 4, Len(calls)), Tail(xts))
            \/ /\ calls[2] = "inherent_extrinsics"
               /\ calls[3] = "rollback"
               /\ Bracketed(SubSeq(calls, 4, Len(calls)), xts)
    ELSE /\ Head(calls) \in { "record_proof", "initialize_block", "finalize_block",
                              "into_storage_changes" }
         /\ Bracketed(Tail(calls), xts)

\* C33: transaction scopes are properly bracketed in execute_extrinsics,
\* prepare_storage_changes_before and create_inherents: each scope opened
\* for a transaction is closed, by a commit exactly when the application
\* succeeded and by a rollback otherwise, before the next scope is opened and
\* before finalize_block or the collection of the state delta runs; the
\* scope of inherent creation is closed too; no scope is open when an
\* operation returns, with Ok or with an error.
C33_ScopesBracketed ==
    /\ [] (Len(api.changes) = 1)
    /\ [][ api'.calls # api.calls => Bracketed(CallsMade, extrinsics) ]_vars

\* C33 witness: on a builder made with inherent data,
\* prepare_storage_changes_before committed the scopes of the transactions
\* that applied and returned the error of a failed one, whose scope it
\* rolled back; no scope is open.
C33_Witness ==
    /\ result.op = "prepare_storage_changes_before"
    /\ result.res \in { "Invalid", "Fault" }
    /\ Len(api.changes) = 1
    /\ api.calls[Len(api.calls)] = "rollback"
    /\ \E k \in DOMAIN api.calls : api.calls[k] = "inherent_extrinsics"
    /\ \E k \in DOMAIN api.calls : api.calls[k] = "commit"

---------------------------------------------------------------------------
\* Properties of pallet-runtime-configs: the other calls

\* Each of set_enable_domains, set_enable_balance_transfers and
\* set_enable_non_root_calls, called with a root origin and value v, sets
\* its own flag to v and leaves the other flags and ConfirmationDepthK
\* unchanged.
OwnFlagOnly ==
    \A v \in BOOLEAN :
        /\ ( /\ dispatch_result'.call = "set_enable_domains"
             /\ SetEnableDomains("Root", v) )
           => /\ EnableDomains' = v
              /\ UNCHANGED << EnableDynamicCostOfStorage, EnableBalanceTransfers,
                              EnableNonRootCalls, ConfirmationDepthK >>
        /\ ( /\ dispatch_result'.call = "set_enable_balance_transfers"
             /\ SetEnableBalanceTransfers("Root", v) )
           => /\ EnableBalanceTransfers' = v
              /\ UNCHANGED << EnableDomains, EnableDynamicCostOfStorage,
                              EnableNonRootCalls, ConfirmationDepthK >>
        /\ ( /\ dispatch_result'.call = "set_enable_non_root_calls"
             /\ SetEnableNonRootCalls("Root", v) )
           => /\ EnableNonRootCalls' = v
              /\ UNCHANGED << EnableDomains, EnableDynamicCostOfStorage,
                              EnableBalanceTransfers, ConfirmationDepthK >>

\* C34: each of set_enable_domains, set_enable_balance_transfers and
\* set_enable_non_root_calls, called with a root origin and value v, sets
\* exactly its own flag to v and leaves the other flags and
\* ConfirmationDepthK unchanged; and EnableBalanceTransfers is changed by no
\* call other than set_enable_balance_transfers.
C34_EachCallSetsItsOwnFlag ==
    [][ /\ OwnFlagOnly
        /\ EnableBalanceTransfers' # EnableBalanceTransfers
              => dispatch_result'.call = "set_enable_balance_transfers" ]_vars

\* The part of C34 about the three calls' own effects holds, as does: a call
\* with another origin fails with BadOrigin and changes no storage.
ThreeCallsSetOwnFlag ==
    [][ /\ OwnFlagOnly
        /\ dispatch_result'.res = "BadOrigin" => UNCHANGED configStorage ]_vars

=============================================================================
